---- MODULE Spec2Model ----
(***************************************************************************)
(* Model of the protocol-client and session layer of dlv-mcp.              *)
(*                                                                         *)
(*  Part I   the Line-Oriented RPC client (package headless, sendRequest,  *)
(*           reconnectLocked, Close, Connect): specification Spec; and the *)
(*           headless Session and SessionManager built on it:              *)
(*           specification SpecSession, with the stepping operations       *)
(*           specification SpecStepping.                                   *)
(*  Part II  the Sequenced-transport session of package dap (dap_old):     *)
(*           Session state machine, event goroutine, Client.sendRequest,   *)
(*           SessionManager: specification SpecDap.                        *)
(*  Part III Client.sendRequest of package dap (dap_old) for every request *)
(*           type: specification SpecSendRequest.                          *)
(*  Part IV  the breakpoint tools of package headless_ext and the          *)
(*           backend's breakpoint table: specification SpecBreakpoints.    *)
(*  Part V   ExamineMemory and formatMemoryDump: specification SpecMemory. *)
(*  Part VI  headless.SessionManager with several sessions and the backend *)
(*           processes it spawns: specification SpecRegistry.              *)
(*  Part VII SessionManager.CreateSession of package dap (dap_old), the    *)
(*           handshake it runs: specification SpecCreate.                  *)
(*  Part VIII what the translators of package headless_ext send and        *)
(*           return, ExamineMemory with its address as text:               *)
(*           specification SpecXlate.                                      *)
(*  Part IX  the event channel of the dap (dap_old) Client and the         *)
(*           goroutines that send on it and close it: specification        *)
(*           SpecEvch.                                                     *)
(*  Part X   the toggle_breakpoint tool called by several callers at once: *)
(*           specification SpecToggle.                                     *)
(***************************************************************************)
EXTENDS Integers, Sequences, FiniteSets, TLC

\* ------------------------------------------------------------------ bounds
\* raw requests the callers of the client may start in total
MaxOps == 3
\* operations on the session manager and its session the callers may start
MaxSessionOps == 2
\* connection failures the environment may inject
MaxDrops == 2

\* concurrent callers of one client / one session
Callers == {"a", "b"}

\* the id NewSession stores the session under, and an id never stored
SessionId == "s1"
UnknownId == "s0"

\* what a reply of the backend carries: an explicit error payload, or a
\* DebuggerState that is exited / stopped at a breakpoint / stopped with
\* NextInProgress set
ReplyKinds == {"error", "exited", "breakpoint", "nextInProgress"}

VARIABLES
    \* ---- headless.Client
    mutex,      \* Client.mutex is locked
    isClosed,   \* Client.isClosed
    conn,       \* Client.conn / Client.reader: "nil" or "open"
    link,       \* health of the open connection: "up", "eof", "closed", "reset"
    addr,       \* Client.addr is set
    seq,        \* Client.seq
    reqs,       \* requests written on the connection, not yet answered
    stream,     \* reply records the backend wrote, not yet read
    drops,      \* connection failures injected so far
    crashed,    \* the process died (fatal error or unrecovered panic)
    crashedIn,  \* the caller whose goroutine raised it
    \* ---- headless.SessionManager / headless.Session
    sessions,   \* SessionManager.sessions (set of ids)
    smMu,       \* SessionManager.mu is locked
    created,    \* the Session object exists
    hasCmd,     \* Session.cmd != nil
    connectTried, \* the call of ConnectRemote: "no", "dial" (in DialContext), "dialed", "done"
    isPaused,   \* Session.isPaused
    closeCalls, \* calls of Client.Close
    killCalls,  \* calls of cmd.Process.Kill
    lastContinue, \* reply kind of the latest successful Continue ("none" before)
    tsDone,     \* what the TerminateSession of the registered id returned ("none" before)
    ops,        \* requests and session operations started so far
    cs,         \* per caller: position in the operation and in sendRequest
    \* ---- package dap (dap_old): Session, SessionManager, Client
    dState,     \* Session.State ("none": no session was created yet)
    dPrev,      \* Session.State before its latest assignment
    dReg,       \* the session is in SessionManager.sessions
    dCreating,  \* CreateSession is running, the session not yet stored (m.mu is held)
    dMu,        \* Session.mu is locked
    dClosed,    \* Client.isClosed
    dConn,      \* Client.conn: "nil", "open", "closed"
    dSeq,       \* Client.seq
    dWrites,    \* messages written to the backend connection
    dPending,   \* requests written and not yet answered, oldest first: [seq, verb]
    events,     \* Client.events, the buffered channel
    chClosed,   \* Client.events was closed
    readerDone, \* the readEvents goroutine has returned
    lmsg,       \* the message the session's event goroutine took and not yet applied
    leaked,     \* waiters left behind by Evaluate: request sequence numbers
    dMsgs,      \* messages the backend has sent since the session was created
    dOps,       \* session operations started so far
    dcs,        \* per caller: position in the session operation
    dTermRet,   \* what the latest TerminateSession returned
    BreakpointIDs, \* Session.BreakpointIDs: the "file:line" keys stored (every id is 1)
    \* ---- package dap (dap_old): one call of Client.sendRequest
    waiter,     \* the call: request, receivedStoppedEvent, messages taken, result
    \* ---- package headless_ext: the breakpoint tools and the backend's table
    bps,        \* the backend's breakpoints, by id
    bpNext,     \* the id the backend gives to the next breakpoint it creates
    bpOp,       \* the tool call in progress or the latest one, with its result
    bpText,     \* the text returned by the latest successful ListBreakpoints
    bpHist,     \* by id: the Disabled flags found by the latest successful toggles
    wpMade,     \* the watchpoints for which CreateWatchpoint returned success
    bpCalls,    \* tool calls started so far
    \* ---- package headless_ext: ExamineMemory
    memIn,      \* the bytes the backend returned (examineOut.Mem)
    memBase,    \* the parsed address
    dump,       \* the dump lines of the returned text
    \* ---- headless.SessionManager with several sessions, and the machine
    procs,      \* the backend processes spawned, by number
    registry,   \* SessionManager.sessions: the sessions stored
    nsCall,     \* per caller of NewSession: position and locals
    nsCount,    \* NewSession calls started so far
    \* ---- package dap (dap_old): one call of SessionManager.CreateSession
    create,     \* position in the handshake, calls made, their outcomes, result
    \* ---- package headless_ext: the latest translator call
    xlate,      \* its arguments, the requests it sent, the error it returned
    \* ---- package dap (dap_old): a client initialized by InitializeHeadless
    evch,       \* the connection, Client.events and the two reading goroutines
    \* ---- package headless_ext: concurrent ToggleBreakpoint calls
    tog         \* per caller: position, the copy it amends with, result

clientVars == <<mutex, isClosed, conn, link, addr, seq, reqs, stream, drops, crashed, crashedIn>>
sessVars == <<sessions, smMu, created, hasCmd, connectTried, isPaused, closeCalls, killCalls,
              lastContinue, tsDone>>
dapVars == <<dState, dPrev, dReg, dCreating, dMu, dClosed, dConn, dSeq, dWrites, dPending, events, chClosed,
             readerDone, lmsg, leaked, dMsgs, dOps, dcs, dTermRet, BreakpointIDs>>
\* the variables outside the Line-Oriented layer and the dap Session
bpVars == <<bps, bpNext, bpOp, bpText, bpHist, wpMade, bpCalls>>
memVars == <<memIn, memBase, dump>>
regVars == <<procs, registry, nsCall, nsCount>>
moreVars == <<create, xlate, evch, tog>>
extVars == <<waiter, bpVars, memVars, regVars, moreVars>>
vars == <<clientVars, sessVars, ops, cs, dapVars, extVars>>

\* "unchanged" groups used by the actions of Part I
envVars == <<reqs, stream, drops, link>>

\* A caller of the dap package that is in no session operation.
\* n is the serial number of the caller's latest session operation.
dap_Idle == [op |-> "none", n |-> 0, pc |-> "idle", reqSeq |-> 0, ctx |-> 0, key |-> "", ret |-> "none"]

\* breakpoints the backend creates
MaxBps == 2
\* tool calls of package headless_ext
MaxBpOps == 3

BpIds == 1..MaxBps

\* no breakpoint under an id
NoBp == [present |-> FALSE, disabled |-> FALSE, file |-> "", line |-> 0, watch |-> ""]

\* methods of the breakpoint requests (methods.go)
RPCCreateBreakpoint == "RPCServer.CreateBreakpoint"
RPCListBreakpoints == "RPCServer.ListBreakpoints"
RPCClearBreakpoint == "RPCServer.ClearBreakpoint"
RPCAmendBreakpoint == "RPCServer.AmendBreakpoint"

\* no tool call was made
\* sent: the methods of the requests the call has sent, in order;
\* writeArg, readArg, mask: the flags of a create_watchpoint call as the
\* tool call carries them, and the WatchType of the request it sent
NoBpOp ==
    [op |-> "none", pc |-> "idle", id |-> 0, copy |-> NoBp, ret |-> "none", sent |-> <<>>,
     writeArg |-> "", readArg |-> "", mask |-> {}]

\* a backend without breakpoints (the first id Delve gives is 1), no tool
\* call made
InitBreakpoints ==
    /\ bps = [i \in BpIds |-> NoBp] /\ bpNext = 1
    /\ bpOp = NoBpOp
    /\ bpText = [valid |-> FALSE, entries |-> <<>>]
    /\ bpHist = [i \in BpIds |-> <<>>]
    /\ wpMade = {} /\ bpCalls = 0

\* memory bytes the backend returns for one ExamineMemory
MaxMemLen == 33
\* const bytesPerLine = 16
bytesPerLine == 16

\* no ExamineMemory was called
InitMemory ==
    memIn = <<>> /\ memBase = 0 /\ dump = [called |-> FALSE, empty |-> TRUE, lines |-> <<>>]

\* NewSession calls on one SessionManager
MaxSessions == 2
\* the goroutines that call NewSession
Creators == {"p", "q"}

\* a caller that is not inside NewSession
NoNewSession == [pc |-> "idle", n |-> 0, mode |-> "", cmd |-> 0, peer |-> 0, ret |-> "none"]

\* NewSessionManager(): an empty registry; no backend process runs
InitRegistry ==
    /\ procs = [i \in 1..MaxSessions |-> "none"]
    /\ registry = {}
    /\ nsCall = [c \in Creators |-> NoNewSession]
    /\ nsCount = 0

\* the steps of CreateSession that talk to the backend, in program order
Handshake == <<"connect", "initialize", "launch", "configurationDone">>
HandshakeSteps == {Handshake[i] : i \in 1..Len(Handshake)}

\* CreateSession was not called
NoCreate ==
    [pc |-> "idle", sent |-> FALSE, calls |-> <<>>,
     outcome |-> [st \in HandshakeSteps |-> "none"], ret |-> "none", kills |-> 0, closes |-> 0]

InitCreate == create = NoCreate

\* the tools and the registry before their first call

\* a nil error
NoError == [msg |-> "", cause |-> ""]

\* no translator was called
NoXlate ==
    [op |-> "none", address |-> <<>>, session |-> "", sent |-> <<>>, reply |-> "none",
     addr |-> 0, err |-> NoError]

InitXlate == xlate = NoXlate

\* a connected client after Connect and InitializeHeadless: readEvents
\* and the line-reading goroutine are at the head of their loops, nothing
\* was received, the channel is open and empty
NoEvch ==
    [conn |-> "open", isClosed |-> FALSE, inbox |-> 0, queued |-> 0,
     chClosed |-> FALSE, closes |-> 0, sentClosed |-> FALSE, panic |-> "none",
     rd |-> "loop", ln |-> "loop", sent |-> 0, closeCalled |-> FALSE]

InitEvch == evch = NoEvch

\* no ToggleBreakpoint call of a concurrent caller was made
NoToggle == [pc |-> "idle", id |-> 0, copy |-> NoBp, ret |-> "none", before |-> FALSE,
             overlap |-> FALSE]

InitToggle == tog = [c \in Callers |-> NoToggle]

InitTools ==
    InitBreakpoints /\ InitMemory /\ InitRegistry /\ InitCreate /\ InitXlate /\ InitEvch
    /\ InitToggle

\* no call of Client.sendRequest was made: reqSeq := 0,
\* receivedStoppedEvent := false, nothing taken from the channel
NoRequest ==
    [pc |-> "idle", verb |-> "none", reqSeq |-> 0, stopped |-> FALSE,
     taken |-> <<>>, ret |-> "none", msg |-> [t |-> "none", verb |-> "", rs |-> 0]]

\* dap.NewClient and the state before SessionManager.CreateSession: seq 1,
\* an empty event channel, isClosed false, no connection, no session.
InitDap ==
    /\ dState = "none" /\ dPrev = "none" /\ dReg = FALSE /\ dCreating = FALSE
    /\ dMu = FALSE /\ dClosed = FALSE /\ dConn = "nil"
    /\ dSeq = 1 /\ dWrites = 0 /\ dPending = <<>>
    /\ events = <<>> /\ chClosed = FALSE /\ readerDone = FALSE
    /\ lmsg = "none" /\ leaked = {} /\ dMsgs = 0 /\ dOps = 0
    /\ dcs = [c \in {"u"} |-> dap_Idle] /\ dTermRet = "none"
    /\ BreakpointIDs = {}
    /\ waiter = NoRequest
    /\ InitTools

\* ------------------------------------------------------------ caller state
\* op      "none" | "request" | "continue" | "terminate"
\* stage   of Terminate: "state" (isExited), "exit", "close"
\* pc      position: "idle", or inside sendRequest "begin" (line 167),
\*         "lock2" (240), "write" (249), "read" (270), "reconnect" (252/274),
\*         "dial" (332, inside reconnectLocked), "dialed" (338),
\*         "unwind" (deferred Unlock of an outer frame), "ret" (returned)
\* defers  outer sendRequest frames whose deferred Unlock is still to run
IdleCaller ==
    [op |-> "none", stage |-> "", pc |-> "idle", method |-> "", callback |-> FALSE, seqNum |-> 0,
     defers |-> 0, res |-> "none", kind |-> "none", nReconn |-> 0, nWrites |-> 0,
     nDrops |-> 0, tState |-> "none", tExit |-> FALSE,
     tId |-> "", termRet |-> "none", got |-> "none", gId |-> "", listed |-> "none"]

\* the methods the callers pass: the generic command verb and another one
RPCCommand == "RPCServer.Command"
RPCState == "RPCServer.State"
Methods == {RPCCommand, RPCState}

\* a client that returns after the write whenever a channel was supplied
IsAsync_AnyMethod(method, callback) == callback

\* line 263: method == RPCCommand && len(callback) > 0
IsAsync(method, callback) == method = RPCCommand /\ callback

\* SendHeadlessClientRequest[T](client, method, params): a synchronous
\* sendRequest without completion channel
SendHeadlessClientRequest(r) ==
    [r EXCEPT !.pc = "begin", !.callback = FALSE, !.seqNum = 0, !.defers = 0,
              !.res = "none", !.kind = "none", !.nReconn = 0, !.nWrites = 0,
              !.nDrops = 0]

\* err == io.EOF || strings.Contains(err.Error(), "use of closed network connection")
IsConnectionError(l) == l \in {"eof", "closed"}

\* a frame that sends the request again when it ends with an error payload
AfterFrame_RetryOnError(r) ==
    [r EXCEPT !.pc = IF r.kind = "error" THEN "begin"
                     ELSE IF r.defers > 0 THEN "unwind" ELSE "ret"]

\* where a frame that returned leaves the caller: outer frames still have
\* their deferred Unlock to run
AfterFrame(r) == [r EXCEPT !.pc = IF r.defers > 0 THEN "unwind" ELSE "ret"]

\* the state after NewSessionManager(): no session, no client
InitManager ==
    /\ InitDap
    /\ mutex = FALSE /\ isClosed = FALSE /\ conn = "nil" /\ link = "up"
    /\ addr = FALSE /\ seq = 1 /\ reqs = <<>> /\ stream = <<>> /\ drops = 0
    /\ crashed = FALSE /\ crashedIn = "none"
    /\ sessions = {} /\ smMu = FALSE /\ created = FALSE /\ hasCmd = FALSE
    /\ connectTried = "no" /\ isPaused = FALSE /\ closeCalls = 0 /\ killCalls = 0
    /\ lastContinue = "none" /\ tsDone = "none"
    /\ ops = 0
    /\ cs = [c \in Callers |-> IdleCaller]

\* ------------------------------------------------- sync.Mutex.Unlock, fatal
\* The process dies in caller c's goroutine: "fatal error: sync: unlock of
\* unlocked mutex", or a nil-pointer panic on c.conn / c.reader.
Fatal(c) ==
    /\ crashed' = TRUE /\ crashedIn' = c
    /\ UNCHANGED <<mutex, cs>>

\* A frame of sendRequest that holds the deferred Unlock (line 241) returns
\* with the caller record r: the deferred c.mutex.Unlock() runs.  sync.Mutex
\* has no owner: Unlock releases the mutex whoever locked it, and is fatal
\* when the mutex is not locked.
DeferredReturn(c, r) ==
    IF mutex
      THEN /\ mutex' = FALSE
           /\ cs' = [cs EXCEPT ![c] = AfterFrame(r)]
           /\ UNCHANGED <<crashed, crashedIn>>
      ELSE Fatal(c)

\* a decoding that does not compare the reply's id with the request's
ParseReply_NoIdCheck(r, rep) ==
    IF rep.kind = "error" THEN [r EXCEPT !.res = "err", !.kind = "error"]
    ELSE [r EXCEPT !.res = "ok", !.kind = rep.kind]

\* lines 284-305: decode one reply record for a request sent with id seqNum
ParseReply(r, rep) ==
    IF rep.kind = "error" THEN [r EXCEPT !.res = "err", !.kind = "error"]
    ELSE IF rep.id # r.seqNum THEN [r EXCEPT !.res = "err", !.kind = "mismatch"]
    ELSE [r EXCEPT !.res = "ok", !.kind = rep.kind]

\* ---------------------------------------------------------- sendRequest
\* lines 167-181: first critical section, takes the request id
sendRequest_Begin(c) ==
    /\ UNCHANGED <<dapVars, extVars>>
    /\ ~crashed /\ cs[c].pc = "begin" /\ ~mutex
    /\ IF isClosed \/ conn = "nil"
         THEN /\ cs' = [cs EXCEPT ![c] = AfterFrame([cs[c] EXCEPT !.res = "err", !.kind = "none"])]
              /\ seq' = seq
         ELSE /\ cs' = [cs EXCEPT ![c] = [cs[c] EXCEPT !.seqNum = seq, !.pc = "lock2"]]
              /\ seq' = seq + 1
    /\ UNCHANGED <<mutex, isClosed, conn, addr, crashed, crashedIn, envVars, sessVars, ops>>

\* lines 240-246: second Lock, deferred Unlock, second isClosed check
sendRequest_Lock(c) ==
    /\ UNCHANGED <<dapVars, extVars>>
    /\ ~crashed /\ cs[c].pc = "lock2" /\ ~mutex
    /\ IF isClosed
         THEN /\ cs' = [cs EXCEPT ![c] = AfterFrame([cs[c] EXCEPT !.res = "err", !.kind = "none"])]
              /\ mutex' = FALSE
         ELSE /\ cs' = [cs EXCEPT ![c] = [cs[c] EXCEPT !.pc = "write"]]
              /\ mutex' = TRUE
    /\ UNCHANGED <<isClosed, conn, addr, seq, crashed, crashedIn, envVars, sessVars, ops>>

\* lines 249-266: c.conn.Write(requestBytes)
sendRequest_Write(c) ==
    /\ UNCHANGED <<dapVars, extVars>>
    /\ ~crashed /\ cs[c].pc = "write"
    /\ LET r == [cs[c] EXCEPT !.nWrites = @ + 1] IN
       IF conn = "nil"
         THEN Fatal(c) /\ UNCHANGED reqs
       ELSE IF link = "up"
         THEN /\ reqs' = Append(reqs, [id |-> r.seqNum, async |-> IsAsync(r.method, r.callback)])
              /\ IF IsAsync(r.method, r.callback)
                   THEN DeferredReturn(c, [r EXCEPT !.res = "ok", !.kind = "none"])
                   ELSE /\ cs' = [cs EXCEPT ![c] = [r EXCEPT !.pc = "read"]]
                        /\ UNCHANGED <<mutex, crashed, crashedIn>>
       ELSE IF IsConnectionError(link)
         THEN /\ cs' = [cs EXCEPT ![c] = [r EXCEPT !.pc = "reconnect", !.nDrops = @ + 1]]
              /\ UNCHANGED <<mutex, crashed, crashedIn, reqs>>
       ELSE /\ DeferredReturn(c, [r EXCEPT !.res = "err", !.kind = "none"])
            /\ UNCHANGED reqs
    /\ UNCHANGED <<isClosed, conn, addr, seq, stream, drops, link, sessVars, ops>>

\* lines 270-305: c.reader.ReadString('\n') and the decoding of the reply
sendRequest_Read(c) ==
    /\ UNCHANGED <<dapVars, extVars>>
    /\ ~crashed /\ cs[c].pc = "read"
    /\ ~(conn = "open" /\ stream = <<>> /\ link = "up")     \* else blocked
    /\ IF conn = "nil"
         THEN Fatal(c) /\ UNCHANGED stream
       ELSE IF stream # <<>>
         THEN /\ stream' = Tail(stream)
              /\ DeferredReturn(c, ParseReply(cs[c], Head(stream)))
       ELSE IF IsConnectionError(link)
         THEN /\ cs' = [cs EXCEPT ![c] = [cs[c] EXCEPT !.pc = "reconnect", !.nDrops = @ + 1]]
              /\ UNCHANGED <<mutex, crashed, crashedIn, stream>>
       ELSE /\ DeferredReturn(c, [cs[c] EXCEPT !.res = "err", !.kind = "none"])
            /\ UNCHANGED stream
    /\ UNCHANGED <<isClosed, conn, addr, seq, reqs, drops, link, sessVars, ops>>

\* reconnectLocked lines 310-319, entered from line 252 / 274 with the mutex
\* held: the old connection is closed and c.conn, c.reader are set to nil;
\* without a stored address the error is returned (line 253 / 275)
reconnectLocked(c) ==
    /\ UNCHANGED <<dapVars, extVars>>
    /\ ~crashed /\ cs[c].pc = "reconnect"
    /\ conn' = "nil"
    /\ IF ~addr
         THEN DeferredReturn(c, [cs[c] EXCEPT !.res = "err", !.kind = "none"])
         ELSE /\ cs' = [cs EXCEPT ![c] = [cs[c] EXCEPT !.pc = "dial"]]
              /\ UNCHANGED <<mutex, crashed, crashedIn>>
    /\ UNCHANGED <<isClosed, addr, seq, envVars, sessVars, ops>>

\* reconnectLocked line 332: c.conn, err = d.DialContext(...), one dial to
\* the stored address; the goroutine waits in it with c.conn = nil.  A
\* failed dial stores a nil connection and the error is returned
reconnectLocked_Dial(c, dialOk) ==
    /\ UNCHANGED <<dapVars, extVars>>
    /\ ~crashed /\ cs[c].pc = "dial"
    /\ IF ~dialOk
         THEN /\ conn' = "nil"
              /\ DeferredReturn(c, [cs[c] EXCEPT !.res = "err", !.kind = "none", !.nReconn = @ + 1])
              /\ UNCHANGED <<envVars>>
         ELSE /\ conn' = "open" /\ link' = "up" /\ reqs' = <<>> /\ stream' = <<>>
              /\ cs' = [cs EXCEPT ![c] = [cs[c] EXCEPT !.pc = "dialed", !.nReconn = @ + 1]]
              /\ UNCHANGED <<drops, mutex, crashed, crashedIn>>
    /\ UNCHANGED <<isClosed, addr, seq, sessVars, ops>>

\* reconnectLocked lines 338-344 and lines 256-257 / 278-279: the reader,
\* c.isClosed = false, then the explicit c.mutex.Unlock() and the recursive
\* call sendRequest(c, method, params), which starts at line 167 while this
\* frame's deferred Unlock stays pending
reconnectLocked_Retry(c) ==
    /\ UNCHANGED <<dapVars, extVars>>
    /\ ~crashed /\ cs[c].pc = "dialed"
    /\ isClosed' = FALSE
    /\ IF mutex
         THEN /\ mutex' = FALSE
              /\ cs' = [cs EXCEPT ![c] = [cs[c] EXCEPT !.pc = "begin", !.defers = @ + 1]]
              /\ UNCHANGED <<crashed, crashedIn>>
         ELSE Fatal(c)
    /\ UNCHANGED <<conn, addr, seq, envVars, sessVars, ops>>

\* the deferred c.mutex.Unlock() (line 241) of a frame that retried, run when
\* the recursive call has returned
sendRequest_Unwind(c) ==
    /\ UNCHANGED <<dapVars, extVars>>
    /\ ~crashed /\ cs[c].pc = "unwind"
    /\ DeferredReturn(c, [cs[c] EXCEPT !.defers = @ - 1])
    /\ UNCHANGED <<isClosed, conn, addr, seq, envVars, sessVars, ops>>

\* ------------------------------------------------------- the environment
\* the backend answers the oldest unanswered request of the connection
BackendReply(k) ==
    /\ UNCHANGED <<dapVars, extVars>>
    /\ ~crashed /\ conn = "open" /\ link = "up" /\ reqs # <<>>
    /\ stream' = Append(stream, [id |-> Head(reqs).id, kind |-> k])
    /\ reqs' = Tail(reqs)
    /\ UNCHANGED <<mutex, isClosed, conn, link, addr, seq, drops, crashed, crashedIn, sessVars, ops, cs>>

\* the connection breaks: end-of-stream ("eof") or another error ("reset")
Drop(l) ==
    /\ UNCHANGED <<dapVars, extVars>>
    /\ ~crashed /\ conn = "open" /\ link = "up" /\ drops < MaxDrops
    /\ link' = l /\ drops' = drops + 1
    /\ UNCHANGED <<mutex, isClosed, conn, addr, seq, reqs, stream, crashed, crashedIn, sessVars, ops, cs>>

\* ------------------------------------------------ headless.Client, the rest
\* Client.Connect (lines 88-118), called by Session.ConnectRemote for a
\* remote session.  Lines 89-93: c.mutex.Lock(), the deferred Unlock, the
\* address is stored
ConnectRemote ==
    /\ UNCHANGED <<dapVars, extVars>>
    /\ ~crashed /\ created /\ ~hasCmd /\ connectTried = "no" /\ ~mutex
    /\ mutex' = TRUE /\ addr' = TRUE
    /\ connectTried' = "dial"
    /\ UNCHANGED <<isClosed, conn, link, seq, reqs, stream, drops, crashed, crashedIn, sessions,
                   smMu, created, hasCmd, isPaused, closeCalls, killCalls, lastContinue, tsDone,
                   ops, cs>>

\* the deferred c.mutex.Unlock() of Connect, fatal when the mutex is not
\* locked (a frame of sendRequest has unlocked it)
Connect_Unlock ==
    IF mutex THEN mutex' = FALSE /\ UNCHANGED <<crashed, crashedIn>>
    ELSE crashed' = TRUE /\ crashedIn' = "connect" /\ UNCHANGED mutex

\* Client.Connect lines 95-105: c.conn, err = d.DialContext(...), the
\* goroutine waits in it with the mutex held; a failed dial stores a nil
\* connection and returns the error
ConnectRemote_Dial(connectOk) ==
    /\ UNCHANGED <<dapVars, extVars>>
    /\ ~crashed /\ connectTried = "dial"
    /\ IF connectOk
         THEN /\ conn' = "open" /\ link' = "up" /\ reqs' = <<>> /\ stream' = <<>>
              /\ connectTried' = "dialed"
              /\ UNCHANGED <<mutex, crashed, crashedIn>>
         ELSE /\ conn' = "nil"
              /\ connectTried' = "done"
              /\ Connect_Unlock
              /\ UNCHANGED <<link, reqs, stream>>
    /\ UNCHANGED <<isClosed, addr, seq, drops, sessions, smMu, created, hasCmd,
                   isPaused, closeCalls, killCalls, lastContinue, tsDone, ops, cs>>

\* Client.Connect lines 107-117: the reader, c.isClosed = false, return nil
\* with the deferred Unlock
ConnectRemote_Return ==
    /\ UNCHANGED <<dapVars, extVars>>
    /\ ~crashed /\ connectTried = "dialed"
    /\ isClosed' = FALSE
    /\ connectTried' = "done"
    /\ Connect_Unlock
    /\ UNCHANGED <<conn, link, addr, seq, reqs, stream, drops, sessions, smMu, created, hasCmd,
                   isPaused, closeCalls, killCalls, lastContinue, tsDone, ops, cs>>

\* ------------------------------------------------- headless.SessionManager
\* NewSession (lines 41-108): mode "remote" builds an unconnected client and
\* spawns nothing; the other modes start the backend, connect and initialize.
\* A failure of the start or of the connect returns an error, nothing stored.
NewSession(mode, startOk, connectOk) ==
    /\ UNCHANGED <<dapVars, extVars>>
    /\ ~crashed /\ ~created /\ ~smMu
    /\ IF mode = "remote"
         THEN /\ created' = TRUE /\ sessions' = sessions \cup {SessionId}
              /\ UNCHANGED <<hasCmd, conn, addr>>
       ELSE IF startOk /\ connectOk
         THEN /\ created' = TRUE /\ sessions' = sessions \cup {SessionId}
              /\ hasCmd' = TRUE /\ conn' = "open" /\ addr' = TRUE
       ELSE UNCHANGED <<created, sessions, hasCmd, conn, addr>>
    /\ UNCHANGED <<mutex, isClosed, link, seq, reqs, stream, drops, crashed, crashedIn,
                   smMu, connectTried, isPaused, closeCalls, killCalls, lastContinue, tsDone, ops, cs>>

\* GetSession (lines 179-189)
GetSessionResult(reg, id) == IF id \in reg THEN "found" ELSE "notfound"

GetSession(c, id) ==
    /\ UNCHANGED <<dapVars, extVars>>
    /\ ~crashed /\ cs[c].pc = "idle" /\ ~smMu /\ ops < MaxSessionOps
    /\ ops' = ops + 1
    /\ cs' = [cs EXCEPT ![c] = [IdleCaller EXCEPT !.got = GetSessionResult(sessions, id), !.gId = id]]
    /\ UNCHANGED <<clientVars, sessVars>>

\* ListSessions (lines 155-176): what the listing shows for SessionId
ListSessionsEntry(reg, paused) ==
    IF SessionId \notin reg THEN "absent" ELSE IF paused THEN "paused" ELSE "running"

ListSessions(c) ==
    /\ UNCHANGED <<dapVars, extVars>>
    /\ ~crashed /\ cs[c].pc = "idle" /\ ~smMu /\ ops < MaxSessionOps
    /\ ops' = ops + 1
    /\ cs' = [cs EXCEPT ![c] = [IdleCaller EXCEPT !.listed = ListSessionsEntry(sessions, isPaused)]]
    /\ UNCHANGED <<clientVars, sessVars>>

\* TerminateSession (lines 133-152): takes sm.mu for the whole call; an id
\* that is not registered is an error; otherwise Session.Terminate starts
\* with isExited, a State request
TerminateSession(c, id) ==
    /\ UNCHANGED <<dapVars, extVars>>
    /\ ~crashed /\ cs[c].pc = "idle" /\ ~smMu /\ ops < MaxSessionOps
    /\ ops' = ops + 1
    /\ IF id \notin sessions
         THEN /\ cs' = [cs EXCEPT ![c] = [IdleCaller EXCEPT !.tId = id, !.termRet = "notfound"]]
              /\ UNCHANGED smMu
         ELSE /\ smMu' = TRUE
              /\ cs' = [cs EXCEPT ![c] = [SendHeadlessClientRequest(IdleCaller) EXCEPT
                                             !.op = "terminate", !.stage = "state", !.tId = id,
                                             !.method = RPCState]]
    /\ UNCHANGED <<clientVars, sessions, created, hasCmd, connectTried, isPaused,
                   closeCalls, killCalls, lastContinue, tsDone>>

\* ---------------------------------------------------------- headless.Session
\* a raw SendRequest on the session's client, as the translators issue it;
\* with any method, with or without a completion channel
StartRequest(c, method, callback) ==
    /\ UNCHANGED <<dapVars, extVars>>
    /\ ~crashed /\ cs[c].pc = "idle" /\ created /\ ops < MaxOps
    /\ ops' = ops + 1
    /\ cs' = [cs EXCEPT ![c] = [SendHeadlessClientRequest(IdleCaller) EXCEPT
                                   !.op = "request", !.method = method,
                                   !.callback = callback]]
    /\ UNCHANGED <<clientVars, sessVars>>

\* Session.Continue (lines 245-267), up to the request
Continue(c) ==
    /\ UNCHANGED <<dapVars, extVars>>
    /\ ~crashed /\ cs[c].pc = "idle" /\ created /\ ops < MaxSessionOps
    /\ ops' = ops + 1
    /\ cs' = [cs EXCEPT ![c] = [SendHeadlessClientRequest(IdleCaller) EXCEPT !.op = "continue",
                                                                             !.method = RPCCommand]]
    /\ UNCHANGED <<clientVars, sessVars>>

\* Session.Next, Session.StepIn, Session.StepOut
StepOps == {"Next", "StepIn", "StepOut"}

\* Session.Next (lines 270-290), StepIn (293-313), StepOut (316-336), up to
\* the request: RPCServer.Command with the name next, step or stepOut
Step(c, op) ==
    /\ UNCHANGED <<dapVars, extVars>>
    /\ ~crashed /\ cs[c].pc = "idle" /\ created /\ ops < MaxSessionOps
    /\ ops' = ops + 1
    /\ cs' = [cs EXCEPT ![c] = [SendHeadlessClientRequest(IdleCaller) EXCEPT !.op = op,
                                                                             !.method = RPCCommand]]
    /\ UNCHANGED <<clientVars, sessVars>>

\* lines 262, 287, 308, 331: s.isPaused = response.State.NextInProgress
PausedAfterCommand(kind) == kind = "nextInProgress"

\* Session.isExited (lines 458-497): any error of the State request counts
\* as exited, else the Exited flag of the reply
isExited(res, kind) == res # "ok" \/ kind = "exited"

\* the operation continues after its request returned
RequestReturned(c) ==
    /\ UNCHANGED <<dapVars, extVars>>
    /\ ~crashed /\ cs[c].pc = "ret"
    /\ LET r == cs[c] IN
       CASE r.op = "request" ->
              /\ cs' = [cs EXCEPT ![c] = IdleCaller]
              /\ UNCHANGED <<isPaused, lastContinue>>
         [] r.op = "continue" ->
              /\ cs' = [cs EXCEPT ![c] = IdleCaller]
              /\ IF r.res = "ok"
                   THEN isPaused' = PausedAfterCommand(r.kind) /\ lastContinue' = r.kind
                   ELSE UNCHANGED <<isPaused, lastContinue>>
         [] r.op \in StepOps ->
              /\ cs' = [cs EXCEPT ![c] = IdleCaller]
              /\ isPaused' = IF r.res = "ok" THEN PausedAfterCommand(r.kind) ELSE isPaused
              /\ UNCHANGED lastContinue
         [] r.op = "terminate" /\ r.stage = "state" ->
              \* Terminate lines 426-438
              /\ IF isExited(r.res, r.kind)
                   THEN cs' = [cs EXCEPT ![c] = [r EXCEPT !.pc = "closing", !.stage = "close",
                                   !.tState = IF r.res = "ok" THEN "exited" ELSE "err"]]
                   ELSE cs' = [cs EXCEPT ![c] = [SendHeadlessClientRequest(r) EXCEPT
                                   !.stage = "exit", !.tState = "alive", !.tExit = TRUE,
                                   !.method = RPCCommand]]
              /\ UNCHANGED <<isPaused, lastContinue>>
         [] r.op = "terminate" /\ r.stage = "exit" ->
              /\ cs' = [cs EXCEPT ![c] = [r EXCEPT !.pc = "closing", !.stage = "close"]]
              /\ UNCHANGED <<isPaused, lastContinue>>
    /\ UNCHANGED <<clientVars, sessions, smMu, created, hasCmd, connectTried, closeCalls, killCalls,
                   tsDone, ops>>

\* a Terminate that reports the failure of Close to its caller
TerminateResult_CloseError(closeErr, killErr) == IF closeErr THEN "err" ELSE "nil"

\* what Session.Terminate returns (line 454), given the outcome of Close and Kill
TerminateResult(closeErr, killErr) == "nil"

\* Terminate lines 440-454: Client.Close (121-127) sets isClosed and closes
\* the connection, without the mutex; Kill of the owned process; then
\* TerminateSession lines 144-151: an error is returned with the session
\* kept, else the id is deleted; sm.mu is released
Terminate_Close(c, closeErr, killErr) ==
    /\ UNCHANGED <<dapVars, extVars>>
    /\ ~crashed /\ cs[c].pc = "closing"
    /\ isClosed' = TRUE
    /\ link' = IF conn = "open" THEN "closed" ELSE link
    /\ closeCalls' = closeCalls + 1
    /\ killCalls' = IF hasCmd THEN killCalls + 1 ELSE killCalls
    /\ LET err == TerminateResult(closeErr, killErr) IN
         /\ sessions' = IF err = "nil" THEN sessions \ {cs[c].tId} ELSE sessions
         /\ cs' = [c2 \in Callers |->
                     IF c2 = c
                       THEN [IdleCaller EXCEPT !.tId = cs[c].tId, !.termRet = err,
                                               !.tState = cs[c].tState, !.tExit = cs[c].tExit]
                       ELSE [cs[c2] EXCEPT !.got = "none", !.listed = "none"]]
         /\ tsDone' = err
    /\ smMu' = FALSE
    /\ UNCHANGED <<mutex, conn, addr, seq, reqs, stream, drops, crashed, crashedIn,
                   created, hasCmd, connectTried, isPaused, lastContinue, ops>>

\* ------------------------------------------------------------ specification
NextSession ==
    \/ \E c \in Callers : sendRequest_Begin(c)
    \/ \E c \in Callers : sendRequest_Lock(c)
    \/ \E c \in Callers : sendRequest_Write(c)
    \/ \E c \in Callers : sendRequest_Read(c)
    \/ \E c \in Callers : reconnectLocked(c)
    \/ \E c \in Callers, dialOk \in BOOLEAN : reconnectLocked_Dial(c, dialOk)
    \/ \E c \in Callers : reconnectLocked_Retry(c)
    \/ \E c \in Callers : sendRequest_Unwind(c)
    \/ \E k \in ReplyKinds : BackendReply(k)
    \/ \E l \in {"eof", "reset"} : Drop(l)
    \/ ConnectRemote
    \/ \E ok \in BOOLEAN : ConnectRemote_Dial(ok)
    \/ ConnectRemote_Return
    \/ \E mode \in {"debug", "remote"}, startOk, connectOk \in BOOLEAN : NewSession(mode, startOk, connectOk)
    \/ \E c \in Callers, id \in {SessionId, UnknownId} : GetSession(c, id)
    \/ \E c \in Callers : ListSessions(c)
    \/ \E c \in Callers, id \in {SessionId, UnknownId} : TerminateSession(c, id)
    \/ \E c \in Callers : Continue(c)
    \/ \E c \in Callers : RequestReturned(c)
    \/ \E c \in Callers, closeErr, killErr \in BOOLEAN : Terminate_Close(c, closeErr, killErr)

\* the session layer: one SessionManager, its callers and the backend
SpecSession == InitManager /\ [][NextSession]_vars

\* the state after NewClient() and a successful Connect(): the client of a
\* locally launched session
InitClient ==
    /\ InitDap
    /\ mutex = FALSE /\ isClosed = FALSE /\ conn = "open" /\ link = "up"
    /\ addr = TRUE /\ seq = 1 /\ reqs = <<>> /\ stream = <<>> /\ drops = 0
    /\ crashed = FALSE /\ crashedIn = "none"
    /\ sessions = {SessionId} /\ smMu = FALSE /\ created = TRUE /\ hasCmd = TRUE
    /\ connectTried = "no" /\ isPaused = FALSE /\ closeCalls = 0 /\ killCalls = 0
    /\ lastContinue = "none" /\ tsDone = "none"
    /\ ops = 0
    /\ cs = [c \in Callers |-> IdleCaller]

\* the Line-Oriented client under concurrent SendRequest callers
Next ==
    \/ \E c \in Callers : sendRequest_Begin(c)
    \/ \E c \in Callers : sendRequest_Lock(c)
    \/ \E c \in Callers : sendRequest_Write(c)
    \/ \E c \in Callers : sendRequest_Read(c)
    \/ \E c \in Callers : reconnectLocked(c)
    \/ \E c \in Callers, dialOk \in BOOLEAN : reconnectLocked_Dial(c, dialOk)
    \/ \E c \in Callers : reconnectLocked_Retry(c)
    \/ \E c \in Callers : sendRequest_Unwind(c)
    \/ \E k \in {"error", "breakpoint"} : BackendReply(k)
    \/ \E l \in {"eof", "reset"} : Drop(l)
    \/ \E c \in Callers, method \in Methods, callback \in BOOLEAN : StartRequest(c, method, callback)
    \/ \E c \in Callers : RequestReturned(c)

Spec == InitClient /\ [][Next]_vars

\* one connected session stepped by its callers and listed
NextStepping ==
    \/ \E c \in Callers : sendRequest_Begin(c)
    \/ \E c \in Callers : sendRequest_Lock(c)
    \/ \E c \in Callers : sendRequest_Write(c)
    \/ \E c \in Callers : sendRequest_Read(c)
    \/ \E c \in Callers : reconnectLocked(c)
    \/ \E c \in Callers, dialOk \in BOOLEAN : reconnectLocked_Dial(c, dialOk)
    \/ \E c \in Callers : reconnectLocked_Retry(c)
    \/ \E c \in Callers : sendRequest_Unwind(c)
    \/ \E k \in ReplyKinds : BackendReply(k)
    \/ \E l \in {"eof", "reset"} : Drop(l)
    \/ \E c \in Callers, op \in StepOps : Step(c, op)
    \/ \E c \in Callers : Continue(c)
    \/ \E c \in Callers : ListSessions(c)
    \/ \E c \in Callers : RequestReturned(c)

SpecStepping == InitClient /\ [][NextStepping]_vars

\* ======================================================== claims, Part I
CallReturned(c) == cs[c].pc = "ret"
\* the call of c is over: it returned, or the process died in c's goroutine
CallOver(c) == CallReturned(c) \/ (crashed /\ crashedIn = c)

\* C1: on one Line-Oriented client at most one request is in flight at any
\* instant: no caller has written its request and waits for its reply while
\* another caller is in that same position.
C1_OneRequestInFlight ==
    Cardinality({c \in Callers : cs[c].pc = "read"}) <= 1

\* C2: a SendRequest during which the connection dropped exactly once, whose
\* reconnect was accepted and whose retried request was answered
\* successfully, made exactly one reconnect attempt, wrote the request twice
\* (the original and one retry) and returns the successful result.
C2_SingleDropRetryReturns ==
    \A c \in Callers :
        (CallOver(c) /\ cs[c].nDrops = 1 /\ cs[c].res = "ok" /\ cs[c].kind \in ReplyKinds)
            => (CallReturned(c) /\ cs[c].nReconn = 1 /\ cs[c].nWrites = 2)

\* C3: within one SendRequest call there is at most one reconnect attempt and
\* at most two writes of the request, however often the connection drops.
C3_AtMostOneReconnect ==
    \A c \in Callers : cs[c].nReconn <= 1 /\ cs[c].nWrites <= 2

\* C4: after a successful Continue whose reply reports that the debuggee
\* stopped at a breakpoint, the session is Paused (IsPaused() is true).
C4_ContinueBreakpointPaused ==
    lastContinue = "breakpoint" => isPaused

\* Session.Terminate run by caller c is over: it returned, or the process
\* died inside it
TerminateOver(c) ==
    \/ cs[c].termRet \in {"nil", "err"}
    \/ (cs[c].op = "terminate" /\ crashed /\ crashedIn = c)

\* the State request of c's Terminate was answered "exited"
ReportedExited(c) ==
    \/ cs[c].tState = "exited"
    \/ (cs[c].op = "terminate" /\ cs[c].stage = "state" /\ cs[c].res = "ok" /\ cs[c].kind = "exited")

\* C8: Session.Terminate always closes the client connection, always attempts
\* to kill the owned backend process when there is one, and returns success,
\* whatever the outcome of the state query and of the exit command.
C8_TerminateAlwaysCloses ==
    \A c \in Callers :
        TerminateOver(c)
            => (closeCalls >= 1 /\ (hasCmd => killCalls >= 1) /\ cs[c].termRet = "nil")

\* C9: when the backend reports the debuggee as exited, Terminate sends no
\* exit command and still closes the client and returns success; the exit
\* command is sent only when the state query succeeded and reported the
\* debuggee as not exited.
C9_ExitedSkipsExitCommand ==
    \A c \in Callers :
        /\ cs[c].tExit => cs[c].tState = "alive"
        /\ (TerminateOver(c) /\ ReportedExited(c))
              => (~cs[c].tExit /\ closeCalls >= 1 /\ cs[c].termRet = "nil")

\* C10: once TerminateSession(id) of a registered id has returned, the id is
\* not in the registry, whatever Close and Kill reported: every GetSession(id)
\* after it answers "session not found" and ListSessions does not list it;
\* TerminateSession and GetSession of an id that is not registered return an
\* error and leave the registry as it was.
C10_Removed ==
    tsDone # "none" =>
        /\ SessionId \notin sessions
        /\ \A c \in Callers :
              /\ (cs[c].got # "none" /\ cs[c].gId = SessionId) => cs[c].got = "notfound"
              /\ cs[c].listed \in {"none", "absent"}

C10_UnknownIdStep ==
    \A c \in Callers :
        ( \/ (cs'[c].termRet = "notfound" /\ cs[c] # cs'[c])
          \/ (cs'[c].got = "notfound" /\ cs[c] # cs'[c]) )
            => sessions' = sessions

C10_TerminateSessionRemoves == [](C10_Removed) /\ [][C10_UnknownIdStep]_vars

\* TerminateSession of the registered id has returned and a GetSession of
\* that id after it answered "session not found"
C10_Witness ==
    /\ tsDone = "nil"
    /\ \E c \in Callers : cs[c].got = "notfound" /\ cs[c].gId = SessionId

\* C15: every request a client sends carries an id strictly greater than
\* the id of every request it sent before, for any interleaving of callers
\* and across reconnects and retries: the requests written on the
\* connection and not yet answered are in strictly ascending order of id.
C15_AscendingIds ==
    \A i, j \in 1..Len(reqs) : i < j => reqs[i].id < reqs[j].id

\* caller c's read takes a reply whose id differs from the id c sent, and
\* c's sendRequest frame returns
ReadsForeignReply(c) ==
    /\ cs[c].pc = "read" /\ cs'[c].pc # "read"
    /\ stream # <<>> /\ stream' = Tail(stream)
    /\ Head(stream).id # cs[c].seqNum

\* C16: a synchronous SendRequest that reads a reply whose id differs from
\* the id it sent returns an error and no result decoded from that reply.
C16_IdMismatchIsError ==
    [][\A c \in Callers :
          ReadsForeignReply(c) => (cs'[c].res = "err" /\ cs'[c].kind \notin ReplyKinds \ {"error"})]_vars

\* a synchronous call has returned the error of a reply with a foreign id
C16_Witness ==
    \E c \in Callers :
        /\ cs[c].pc = "ret" /\ ~IsAsync(cs[c].method, cs[c].callback)
        /\ cs[c].res = "err" /\ cs[c].kind = "mismatch"

\* reply kinds that report a stopped debuggee: not exited, not running
StoppedKinds == {"breakpoint", "nextInProgress"}

\* caller c's Next, StepIn or StepOut returns nil after a reply that reports
\* the debuggee stopped
StepReturnsStopped(c) ==
    /\ cs[c].pc = "ret" /\ cs[c].op \in StepOps /\ cs'[c].pc = "idle"
    /\ cs[c].res = "ok" /\ cs[c].kind \in StoppedKinds

\* C24: after a successful Next, StepIn or StepOut whose reply reports the
\* debuggee stopped, the session is Paused: IsPaused() is true and
\* ListSessions reports the session as paused.
C24_StepStoppedPaused ==
    [][\A c \in Callers :
          StepReturnsStopped(c) =>
              (isPaused' /\ ListSessionsEntry(sessions', isPaused') = "paused")]_vars

\* caller c's read takes a reply that carries an error payload, and c's
\* sendRequest frame goes on
ReadsErrorReply(c) ==
    /\ cs[c].pc = "read" /\ cs'[c].pc # "read"
    /\ stream # <<>> /\ Head(stream).kind = "error"

\* caller c is in the outer frames of a call whose inner frame returned
UnwindsFrames(c) == cs[c].pc = "unwind" /\ cs'[c] # cs[c]

\* C22: a reply that carries an explicit error payload makes the frame that
\* read it return an error: no reconnect is attempted, the request is not
\* written again, and the outer frames of the call only return.
C22_ErrorReplyStep ==
    \A c \in Callers :
        /\ ReadsErrorReply(c) =>
              /\ cs'[c].res = "err" /\ cs'[c].kind = "error"
              /\ cs'[c].pc \in {"ret", "unwind"}
              /\ cs'[c].nReconn = cs[c].nReconn /\ cs'[c].nWrites = cs[c].nWrites
              /\ reqs' = reqs
        /\ UnwindsFrames(c) =>
              /\ cs'[c].res = cs[c].res /\ cs'[c].kind = cs[c].kind
              /\ cs'[c].pc \in {"ret", "unwind"}
              /\ cs'[c].nReconn = cs[c].nReconn /\ cs'[c].nWrites = cs[c].nWrites
              /\ reqs' = reqs

C22_ErrorReplyNotRetried == [][C22_ErrorReplyStep]_vars

\* a call returned the error of an error payload after one write and no reconnect
C22_Witness ==
    \E c \in Callers :
        /\ cs[c].pc = "ret" /\ cs[c].res = "err" /\ cs[c].kind = "error"
        /\ cs[c].nWrites = 1 /\ cs[c].nReconn = 0

\* a call returned the error of an error payload read by its retried frame
C22_WitnessRetried ==
    \E c \in Callers :
        /\ cs[c].pc = "ret" /\ cs[c].res = "err" /\ cs[c].kind = "error"
        /\ cs[c].nWrites = 2 /\ cs[c].nReconn = 1

\* caller c's Write succeeds: the request is on the connection and c's
\* frame goes on
WritesRequest(c) ==
    /\ cs[c].pc = "write" /\ cs'[c].nWrites = cs[c].nWrites + 1
    /\ Len(reqs') = Len(reqs) + 1

\* caller c's frame returns a result (not from an outer frame unwinding)
ReturnsResult(c) ==
    /\ cs[c].pc \notin {"unwind", "ret"} /\ cs'[c].pc \in {"unwind", "ret"}
    /\ cs'[c].res = "ok"

\* C23: after its write, SendRequest returns at once and reads no reply
\* exactly when the method is the generic command verb and a completion
\* channel was supplied; for every other method, with or without a channel,
\* it goes on to read, and it returns a result only from the step that
\* takes one reply.
C23_AsyncStep ==
    \A c \in Callers :
        /\ WritesRequest(c) =>
              IF cs[c].method = RPCCommand /\ cs[c].callback
                THEN /\ cs'[c].pc \in {"ret", "unwind"} /\ cs'[c].res = "ok"
                     /\ stream' = stream
                ELSE cs'[c].pc = "read"
        /\ (ReturnsResult(c) /\ ~(cs[c].method = RPCCommand /\ cs[c].callback)) =>
              /\ cs[c].pc = "read"
              /\ stream # <<>> /\ stream' = Tail(stream)

C23_AsyncExactlyForCommandWithChannel == [][C23_AsyncStep]_vars

\* one call with the command verb and a channel has returned without a
\* reply, and one call with another method and a channel has returned the
\* reply it read
C23_Witness ==
    \E c, d \in Callers :
        /\ cs[c].pc = "ret" /\ cs[c].method = RPCCommand /\ cs[c].callback
        /\ cs[c].res = "ok" /\ cs[c].kind = "none"
        /\ cs[d].pc = "ret" /\ cs[d].method = RPCState /\ cs[d].callback
        /\ cs[d].res = "ok" /\ cs[d].kind \in ReplyKinds

\* caller c is between the second Lock of a frame of sendRequest and the
\* end of that frame's critical section
HoldsMutex(c) ==
    mutex /\ cs[c].pc \in {"write", "read", "reconnect", "dial", "dialed"}

\* a step in which caller c releases the locked connection mutex
UnlocksHeld(c) == mutex /\ ~mutex' /\ cs'[c] # cs[c]

\* a step in which caller c's deferred Unlock finds the mutex not locked
UnlocksUnlocked(c) ==
    /\ ~mutex /\ cs[c].pc \in {"unwind", "read", "write", "reconnect", "dial", "dialed"}
    /\ (conn # "nil" \/ cs[c].pc \in {"unwind", "reconnect", "dial", "dialed"})
    /\ ~crashed /\ crashed' /\ crashedIn' = c

C32_UnlockStep ==
    \A c \in Callers :
        /\ UnlocksHeld(c) => HoldsMutex(c)
        /\ ~UnlocksUnlocked(c)

\* C32: in every execution of sendRequest, the paths that reconnect and
\* retry included, each unlock of the connection mutex is done by the
\* caller that holds it, and the mutex is never unlocked while it is not
\* held.
C32_LockDiscipline == [][C32_UnlockStep]_vars

\* a new connection is opened by a reconnect, or a request reaches the
\* connection
OpensConnection == \E c \in Callers : cs'[c].nReconn > cs[c].nReconn /\ conn' = "open"
WritesToConnection == Len(reqs') > Len(reqs)

\* a step of a client closed by Close() that is not a call of Connect
C33_AfterCloseStep ==
    (closeCalls > 0 /\ isClosed /\ connectTried' = connectTried)
        => (isClosed' /\ ~OpensConnection /\ ~WritesToConnection)

\* C33: once Close() has been called, IsClosed() stays true, no new
\* connection to the backend is opened and no request is written (by
\* anything but a new call of Connect), also when Close() runs while
\* another caller's request waits for its reply.
C33_CloseIsFinal == [][C33_AfterCloseStep]_vars

\* a step in which caller c, having written a synchronous request, reads
\* one reply record
ReadsReplyRecord(c) ==
    /\ ~crashed /\ cs[c].pc = "read" /\ conn = "open"
    /\ stream # <<>> /\ stream' = Tail(stream)

C34_ReadStep ==
    \A c \in Callers : ReadsReplyRecord(c) => Head(stream).id = cs[c].seqNum

\* C34: whenever a synchronous SendRequest has written its request, the
\* next reply record it reads is the reply to that request, after any
\* earlier sequence of calls on the connection, asynchronous command
\* calls and calls that ended with an id mismatch included.
C34_ReplyStreamAligned == [][C34_ReadStep]_vars

\* ------------------------------------------------------------- scheduling
\* one step of caller c's goroutine: a runnable goroutine is run by the Go
\* scheduler, and a goroutine waiting in Lock gets a mutex that stays free
CallerStep(c) ==
    \/ sendRequest_Begin(c)
    \/ sendRequest_Lock(c)
    \/ sendRequest_Write(c)
    \/ sendRequest_Read(c)
    \/ reconnectLocked(c)
    \/ \E dialOk \in BOOLEAN : reconnectLocked_Dial(c, dialOk)
    \/ reconnectLocked_Retry(c)
    \/ sendRequest_Unwind(c)
    \/ RequestReturned(c)
    \/ \E closeErr, killErr \in BOOLEAN : Terminate_Close(c, closeErr, killErr)

\* the goroutine inside Client.Connect goes on: the dial ends (its context
\* has a timeout of 10 seconds) and Connect returns
ConnectStep ==
    \/ \E ok \in BOOLEAN : ConnectRemote_Dial(ok)
    \/ ConnectRemote_Return

\* The session layer with its goroutines scheduled fairly.  Nothing obliges
\* the backend to answer and nothing obliges the connection to fail: no
\* fairness on BackendReply and Drop.
SpecSessionFair ==
    SpecSession /\ WF_vars(ConnectStep) /\ \A c \in Callers : WF_vars(CallerStep(c))

\* C11: every TerminateSession call eventually returns (the end of the
\* process by a fatal error or panic is let through here: it is the subject
\* of C2 and C8), also when the backend never replies to a request or while
\* another caller's request on the same session is still in flight.
C11_TerminateSessionReturns ==
    \A c \in Callers :
        (cs[c].op = "terminate") ~> (cs[c].termRet \in {"nil", "err"} \/ crashed)

\* caller c is inside TerminateSession, blocked in the read of a reply
\* the backend has not sent
TerminateBlockedOnReply(c) ==
    /\ ~crashed /\ cs[c].op = "terminate" /\ cs[c].pc = "read"
    /\ conn = "open" /\ stream = <<>> /\ link = "up"

\* C31: the registry's lock is not held while waiting on a backend: while
\* a TerminateSession of one session is blocked on a backend reply, a
\* GetSession or ListSessions of another caller can complete.
C31_RegistryFreeDuringBackendWait ==
    \A c, c2 \in Callers :
        (TerminateBlockedOnReply(c) /\ c2 # c /\ cs[c2].pc = "idle" /\ ops < MaxSessionOps)
            => /\ ENABLED GetSession(c2, UnknownId)
               /\ ENABLED ListSessions(c2)

\* ======================================================================
\* Part II.  Package dap (dap_old): the Sequenced client, its Session and
\* SessionManager, for a manager created with debuggerType "dap".
\* ======================================================================

\* session operations a caller may start
MaxDapOps == 3
\* messages the backend sends after the session was created (events,
\* responses), its closing of the connection included
MaxMsgs == 2

headlessVars == <<clientVars, sessVars, ops, cs>>

\* the users of the session: Session.mu serializes their operations
DapCallers == {"u"}

SteppingVerbs == {"next", "stepIn", "stepOut"}

\* contexts := []string{"watch", "variables", "repl"}
EvalContexts == <<"watch", "variables", "repl">>

\* the response types that the switch of sendRequest returns when the
\* request sequence number matches
MatchedResponses ==
    {"initialize", "launch", "configurationDone", "continue", "next", "stepIn",
     "stepOut", "evaluate"}

\* an event of the backend: *dap.StoppedEvent, *dap.TerminatedEvent
Event(t) == [t |-> t, verb |-> "", rs |-> 0]

\* the backend's answer to request p: the typed response of its verb, or
\* *dap.ErrorResponse, with RequestSeq = p.seq
Response(p, ok) ==
    IF ok THEN [t |-> "response", verb |-> p.verb, rs |-> p.seq]
          ELSE [t |-> "error", verb |-> "", rs |-> p.seq]

\* a waiter that returns every response of a type of its switch, whatever
\* request sequence number it carries
ResponseOutcome_AnySeq(verb, reqSeq, msg) ==
    IF msg.t = "error" THEN (IF msg.rs = reqSeq THEN "error" ELSE "continue")
    ELSE IF msg.t = "response" /\ msg.verb \in MatchedResponses \cup {"setBreakpoints"}
        THEN "ok"
    ELSE "continue"

\* what the waiter of sendRequest does with one message taken from the
\* channel: "ok" (return it), "error" (return an error), "continue"
ResponseOutcome(verb, reqSeq, msg) ==
    IF msg.t = "error" THEN (IF msg.rs = reqSeq THEN "error" ELSE "continue")
    ELSE IF msg.t = "response" /\ msg.verb = "setBreakpoints"
        THEN (IF verb = "setBreakpoints" \/ msg.rs = reqSeq THEN "ok" ELSE "continue")
    ELSE IF msg.t = "response" /\ msg.verb \in MatchedResponses
        THEN (IF msg.rs = reqSeq THEN "ok" ELSE "continue")
    ELSE "continue"

\* dap.WriteProtocolMessage(c.conn, request): fails on a connection closed
\* locally; on a connection the backend has closed it may still succeed
WriteOk(cn, w) == cn = "open" \/ (cn = "eof" /\ w)

\* the assignment of the session's event goroutine for one message
StateAfterEvent(t, st) ==
    IF t = "stopped" THEN "paused"
    ELSE IF t = "terminated" THEN "terminated"
    ELSE st

\* stepping operations without the check of the state
NotPaused_Unchecked(st) == FALSE

\* if s.State != SessionStatePaused { return fmt.Errorf("program is not paused") }
NotPaused(st) == st # "paused"

\* a caller holds the *Session returned by CreateSession
HasSession == dState # "none" /\ ~dCreating

\* the request type the waiter of caller record r waits for
WaiterVerb(r) ==
    IF r.op = "evaluate" THEN (IF r.pc = "evwait" THEN "evaluate" ELSE "stackTrace")
    ELSE r.op

\* SessionManager.CreateSession is modelled step by step in Part VII; the
\* goroutine it starts at line 168 runs from then on
EventLoopStarted == dState # "none" /\ create.pc \in {"store", "done"}

\* Session.Continue up to the sleep of Client.Continue: no check of the
\* state, the request is written and no response is awaited
dap_Continue(c, w) ==
    /\ HasSession /\ dcs[c].pc = "idle" /\ ~dMu
    /\ dOps < MaxDapOps
    /\ dOps' = dOps + 1
    /\ dSeq' = dSeq + 1
    /\ IF WriteOk(dConn, w)
         THEN /\ dWrites' = dWrites + 1
              /\ dPending' = Append(dPending, [seq |-> dSeq, verb |-> "continue"])
              /\ dMu' = TRUE
              /\ dcs' = [dcs EXCEPT ![c] = [op |-> "continue", n |-> dOps + 1, pc |-> "sleep",
                                            reqSeq |-> dSeq, ctx |-> 0, key |-> "", ret |-> "none"]]
         ELSE /\ dcs' = [dcs EXCEPT ![c] = [op |-> "continue", n |-> dOps + 1, pc |-> "idle",
                                            reqSeq |-> dSeq, ctx |-> 0, key |-> "", ret |-> "senderr"]]
              /\ UNCHANGED <<dWrites, dPending, dMu>>
    /\ UNCHANGED <<dState, dPrev, dReg, dCreating, dClosed, dConn, events, chClosed,
                   readerDone, lmsg, leaked, dMsgs>>
    /\ UNCHANGED <<headlessVars, dTermRet, BreakpointIDs, extVars>>

\* Session.Continue after Client.Continue returned nil: s.State = Running
dap_Continue_Return(c) ==
    /\ dcs[c].pc = "sleep"
    /\ dPrev' = dState /\ dState' = "running"
    /\ dMu' = FALSE
    /\ dcs' = [dcs EXCEPT ![c].pc = "idle", ![c].ret = "nil"]
    /\ UNCHANGED <<dReg, dCreating, dClosed, dConn, dSeq, dWrites, dPending, events,
                   chClosed, readerDone, lmsg, leaked, dMsgs, dOps>>
    /\ UNCHANGED <<headlessVars, dTermRet, BreakpointIDs, extVars>>

\* the "file:line" keys Session.SetBreakpoint is called with
BpKeys == {"main.go:10", "main.go:21"}

\* Session.SetBreakpoint up to the sleep of Client.SetBreakpoint: no check
\* of the state; a key already in BreakpointIDs returns its id and nothing
\* is written, otherwise the request is written and no response is awaited
dap_SetBreakpoint(c, key, w) ==
    /\ HasSession /\ dcs[c].pc = "idle" /\ ~dMu
    /\ dOps < MaxDapOps
    /\ dOps' = dOps + 1
    /\ IF key \in BreakpointIDs
         THEN /\ dcs' = [dcs EXCEPT ![c] = [op |-> "setBreakpoints", n |-> dOps + 1, pc |-> "idle",
                                            reqSeq |-> 0, ctx |-> 0, key |-> key, ret |-> "nil"]]
              /\ UNCHANGED <<dSeq, dWrites, dPending, dMu>>
         ELSE /\ dSeq' = dSeq + 1
              /\ IF WriteOk(dConn, w)
                   THEN /\ dWrites' = dWrites + 1
                        /\ dPending' = Append(dPending, [seq |-> dSeq, verb |-> "setBreakpoints"])
                        /\ dMu' = TRUE
                        /\ dcs' = [dcs EXCEPT ![c] = [op |-> "setBreakpoints", n |-> dOps + 1,
                                        pc |-> "bpsleep", reqSeq |-> dSeq, ctx |-> 0,
                                        key |-> key, ret |-> "none"]]
                   ELSE /\ dcs' = [dcs EXCEPT ![c] = [op |-> "setBreakpoints", n |-> dOps + 1,
                                        pc |-> "idle", reqSeq |-> dSeq, ctx |-> 0,
                                        key |-> key, ret |-> "senderr"]]
                        /\ UNCHANGED <<dWrites, dPending, dMu>>
    /\ UNCHANGED <<dState, dPrev, dReg, dCreating, dClosed, dConn, events, chClosed,
                   readerDone, lmsg, leaked, dMsgs>>
    /\ UNCHANGED <<headlessVars, dTermRet, BreakpointIDs, extVars>>

\* Session.SetBreakpoint after Client.SetBreakpoint returned 1, nil:
\* s.BreakpointIDs[key] = id; the state of the session is not assigned
dap_SetBreakpoint_Return(c) ==
    /\ dcs[c].pc = "bpsleep"
    /\ BreakpointIDs' = BreakpointIDs \cup {dcs[c].key}
    /\ dMu' = FALSE
    /\ dcs' = [dcs EXCEPT ![c].pc = "idle", ![c].ret = "nil"]
    /\ UNCHANGED <<dState, dPrev, dReg, dCreating, dClosed, dConn, dSeq, dWrites, dPending,
                   events, chClosed, readerDone, lmsg, leaked, dMsgs, dOps>>
    /\ UNCHANGED <<headlessVars, dTermRet, extVars>>

\* Session.Next / StepIn / StepOut up to the wait of sendRequest
dap_Step(c, verb, w) ==
    /\ HasSession /\ dcs[c].pc = "idle" /\ ~dMu
    /\ dOps < MaxDapOps
    /\ dOps' = dOps + 1
    /\ IF NotPaused(dState)
         THEN /\ dcs' = [dcs EXCEPT ![c] = [op |-> verb, n |-> dOps + 1, pc |-> "idle", reqSeq |-> 0,
                                            ctx |-> 0, key |-> "", ret |-> "notpaused"]]
              /\ UNCHANGED <<dSeq, dWrites, dPending, dMu>>
         ELSE /\ dSeq' = dSeq + 1
              /\ IF WriteOk(dConn, w)
                   THEN /\ dWrites' = dWrites + 1
                        /\ dPending' = Append(dPending, [seq |-> dSeq, verb |-> verb])
                        /\ dMu' = TRUE
                        /\ dcs' = [dcs EXCEPT ![c] = [op |-> verb, n |-> dOps + 1, pc |-> "wait",
                                        reqSeq |-> dSeq, ctx |-> 0, key |-> "", ret |-> "none"]]
                   ELSE /\ dcs' = [dcs EXCEPT ![c] = [op |-> verb, n |-> dOps + 1, pc |-> "idle",
                                        reqSeq |-> dSeq, ctx |-> 0, key |-> "", ret |-> "senderr"]]
                        /\ UNCHANGED <<dWrites, dPending, dMu>>
    /\ UNCHANGED <<dState, dPrev, dReg, dCreating, dClosed, dConn, events, chClosed,
                   readerDone, lmsg, leaked, dMsgs>>
    /\ UNCHANGED <<headlessVars, dTermRet, BreakpointIDs, extVars>>

\* Session.Evaluate up to the wait for the stackTrace response
dap_Evaluate(c, w) ==
    /\ HasSession /\ dcs[c].pc = "idle" /\ ~dMu
    /\ dOps < MaxDapOps
    /\ dOps' = dOps + 1
    /\ IF NotPaused(dState)
         THEN /\ dcs' = [dcs EXCEPT ![c] = [op |-> "evaluate", n |-> dOps + 1, pc |-> "idle",
                                            reqSeq |-> 0, ctx |-> 0, key |-> "", ret |-> "notpaused"]]
              /\ UNCHANGED <<dSeq, dWrites, dPending, dMu>>
         ELSE /\ dSeq' = dSeq + 1
              /\ dMu' = TRUE
              /\ IF WriteOk(dConn, w)
                   THEN /\ dWrites' = dWrites + 1
                        /\ dPending' = Append(dPending, [seq |-> dSeq, verb |-> "stackTrace"])
                        /\ dcs' = [dcs EXCEPT ![c] = [op |-> "evaluate", n |-> dOps + 1, pc |-> "wait",
                                        reqSeq |-> dSeq, ctx |-> 0, key |-> "", ret |-> "none"]]
                   ELSE /\ dcs' = [dcs EXCEPT ![c] = [op |-> "evaluate", n |-> dOps + 1, pc |-> "ctx",
                                        reqSeq |-> 0, ctx |-> 1, key |-> "", ret |-> "none"]]
                        /\ UNCHANGED <<dWrites, dPending>>
    /\ UNCHANGED <<dState, dPrev, dReg, dCreating, dClosed, dConn, events, chClosed,
                   readerDone, lmsg, leaked, dMsgs>>
    /\ UNCHANGED <<headlessVars, dTermRet, BreakpointIDs, extVars>>

\* Client.Evaluate moves to the next evaluation context, or returns the
\* "(inspection failed)" text with a nil error after the last one
NextContext(r) ==
    IF r.ctx < Len(EvalContexts)
      THEN [r EXCEPT !.pc = "ctx", !.ctx = @ + 1, !.reqSeq = 0]
      ELSE [r EXCEPT !.pc = "idle", !.ret = "inspection failed", !.reqSeq = 0]

\* Client.Evaluate, one evaluation context: the evaluate request is sent by
\* a goroutine running sendRequest, the caller selects on its result
Evaluate_Context(c, w) ==
    /\ dcs[c].pc = "ctx"
    /\ dSeq' = dSeq + 1
    /\ IF WriteOk(dConn, w)
         THEN /\ dWrites' = dWrites + 1
              /\ dPending' = Append(dPending, [seq |-> dSeq, verb |-> "evaluate"])
              /\ dcs' = [dcs EXCEPT ![c].pc = "evwait", ![c].reqSeq = dSeq]
              /\ UNCHANGED dMu
         ELSE /\ dcs' = [dcs EXCEPT ![c] = NextContext(dcs[c])]
              /\ dMu' = (NextContext(dcs[c]).pc # "idle")
              /\ UNCHANGED <<dWrites, dPending>>
    /\ UNCHANGED <<dState, dPrev, dReg, dCreating, dClosed, dConn, events, chClosed,
                   readerDone, lmsg, leaked, dMsgs, dOps>>
    /\ UNCHANGED <<headlessVars, dTermRet, BreakpointIDs, extVars>>

\* the caller record after its sendRequest ended with out: "ok", "error",
\* "closed" or "timeout" ("timeout" of an evaluation context is the 3s
\* timeout of the caller's select)
AfterRequest(r, out) ==
    IF r.op \in SteppingVerbs
      THEN [r EXCEPT !.pc = "idle", !.ret = IF out = "ok" THEN "nil" ELSE out]
    ELSE IF r.pc = "wait"
      THEN [r EXCEPT !.pc = "ctx", !.ctx = 1, !.reqSeq = 0]
    ELSE IF out = "ok"
      THEN [r EXCEPT !.pc = "idle", !.ret = "value"]
    ELSE NextContext(r)

\* the end of a sendRequest of caller c: the session operation goes on or
\* returns and unlocks s.mu
RequestDone(c, out) ==
    /\ dcs' = [dcs EXCEPT ![c] = AfterRequest(dcs[c], out)]
    /\ dMu' = (AfterRequest(dcs[c], out).pc # "idle")

\* sendRequest: case msg, ok := <-c.events with a message
dap_sendRequest_Receive(c) ==
    /\ dcs[c].pc \in {"wait", "evwait"}
    /\ events # <<>>
    /\ events' = Tail(events)
    /\ LET out == ResponseOutcome(WaiterVerb(dcs[c]), dcs[c].reqSeq, Head(events))
       IN  IF out = "continue" THEN UNCHANGED <<dcs, dMu>> ELSE RequestDone(c, out)
    /\ UNCHANGED <<dState, dPrev, dReg, dCreating, dClosed, dConn, dSeq, dWrites, dPending,
                   chClosed, readerDone, lmsg, leaked, dMsgs, dOps>>
    /\ UNCHANGED <<headlessVars, dTermRet, BreakpointIDs, extVars>>

\* sendRequest: case msg, ok := <-c.events on the closed, drained channel
dap_sendRequest_Closed(c) ==
    /\ dcs[c].pc \in {"wait", "evwait"}
    /\ events = <<>> /\ chClosed
    /\ RequestDone(c, "closed")
    /\ UNCHANGED <<dState, dPrev, dReg, dCreating, dClosed, dConn, dSeq, dWrites, dPending,
                   events, chClosed, readerDone, lmsg, leaked, dMsgs, dOps>>
    /\ UNCHANGED <<headlessVars, dTermRet, BreakpointIDs, extVars>>

\* the 10s timeout of sendRequest, or for an evaluation context the 3s
\* timeout of Evaluate, which leaves the goroutine's waiter behind
dap_sendRequest_Timeout(c) ==
    /\ dcs[c].pc \in {"wait", "evwait"}
    /\ leaked' = IF dcs[c].pc = "evwait" THEN leaked \cup {dcs[c].reqSeq} ELSE leaked
    /\ RequestDone(c, "timeout")
    /\ UNCHANGED <<dState, dPrev, dReg, dCreating, dClosed, dConn, dSeq, dWrites, dPending,
                   events, chClosed, readerDone, lmsg, dMsgs, dOps>>
    /\ UNCHANGED <<headlessVars, dTermRet, BreakpointIDs, extVars>>

\* a waiter left behind by Evaluate takes a message from the channel
leaked_Receive(q) ==
    /\ q \in leaked
    /\ events # <<>>
    /\ events' = Tail(events)
    /\ leaked' = IF ResponseOutcome("evaluate", q, Head(events)) = "continue"
                   THEN leaked ELSE leaked \ {q}
    /\ UNCHANGED <<dState, dPrev, dReg, dCreating, dMu, dClosed, dConn, dSeq, dWrites,
                   dPending, chClosed, readerDone, lmsg, dMsgs, dOps, dcs>>
    /\ UNCHANGED <<headlessVars, dTermRet, BreakpointIDs, extVars>>

\* a waiter left behind by Evaluate ends: its 10s timeout, or the channel
\* is closed and drained
leaked_Return(q) ==
    /\ q \in leaked
    /\ leaked' = leaked \ {q}
    /\ UNCHANGED <<dState, dPrev, dReg, dCreating, dMu, dClosed, dConn, dSeq, dWrites,
                   dPending, events, chClosed, readerDone, lmsg, dMsgs, dOps, dcs>>
    /\ UNCHANGED <<headlessVars, dTermRet, BreakpointIDs, extVars>>

\* the session's event goroutine: for msg := range client.events
eventLoop_Receive ==
    /\ EventLoopStarted
    /\ lmsg = "none"
    /\ events # <<>>
    /\ events' = Tail(events)
    /\ lmsg' = IF Head(events).t \in {"stopped", "terminated"} THEN Head(events).t ELSE "none"
    /\ UNCHANGED <<dState, dPrev, dReg, dCreating, dMu, dClosed, dConn, dSeq, dWrites,
                   dPending, chClosed, readerDone, leaked, dMsgs, dOps, dcs>>
    /\ UNCHANGED <<headlessVars, dTermRet, BreakpointIDs, extVars>>

\* the session's event goroutine: session.mu.Lock(); session.State = ...;
\* session.mu.Unlock()
eventLoop_Handle ==
    /\ lmsg # "none"
    /\ ~dMu
    /\ dPrev' = dState
    /\ dState' = StateAfterEvent(lmsg, dState)
    /\ lmsg' = "none"
    /\ UNCHANGED <<dReg, dCreating, dMu, dClosed, dConn, dSeq, dWrites, dPending, events,
                   chClosed, readerDone, leaked, dMsgs, dOps, dcs>>
    /\ UNCHANGED <<headlessVars, dTermRet, BreakpointIDs, extVars>>

\* the backend emits an event; readEvents reads it and sends it on c.events
readEvents_Event(t) ==
    /\ dConn = "open" /\ ~readerDone
    /\ dMsgs < MaxMsgs
    /\ dMsgs' = dMsgs + 1
    /\ events' = Append(events, Event(t))
    /\ UNCHANGED <<dState, dPrev, dReg, dCreating, dMu, dClosed, dConn, dSeq, dWrites,
                   dPending, chClosed, readerDone, lmsg, leaked, dOps, dcs>>
    /\ UNCHANGED <<headlessVars, dTermRet, BreakpointIDs, extVars>>

\* the backend answers the oldest unanswered request; readEvents reads the
\* answer and sends it on c.events
readEvents_Response(ok) ==
    /\ dConn = "open" /\ ~readerDone
    /\ dPending # <<>>
    /\ dMsgs < MaxMsgs
    /\ dMsgs' = dMsgs + 1
    /\ dPending' = Tail(dPending)
    /\ events' = Append(events, Response(Head(dPending), ok))
    /\ UNCHANGED <<dState, dPrev, dReg, dCreating, dMu, dClosed, dConn, dSeq, dWrites,
                   chClosed, readerDone, lmsg, leaked, dOps, dcs>>
    /\ UNCHANGED <<headlessVars, dTermRet, BreakpointIDs, extVars>>

\* readEvents: dap.ReadProtocolMessage fails; close(c.events); return
readEvents_Error ==
    /\ dConn \in {"closed", "eof"} /\ ~readerDone
    /\ chClosed' = TRUE
    /\ readerDone' = TRUE
    /\ UNCHANGED <<dState, dPrev, dReg, dCreating, dMu, dClosed, dConn, dSeq, dWrites,
                   dPending, events, lmsg, leaked, dMsgs, dOps, dcs>>
    /\ UNCHANGED <<headlessVars, dTermRet, BreakpointIDs, extVars>>

\* readEvents: the loop condition !c.isClosed fails; return without close
readEvents_Exit ==
    /\ dClosed /\ ~readerDone
    /\ readerDone' = TRUE
    /\ UNCHANGED <<dState, dPrev, dReg, dCreating, dMu, dClosed, dConn, dSeq, dWrites,
                   dPending, events, chClosed, lmsg, leaked, dMsgs, dOps, dcs>>
    /\ UNCHANGED <<headlessVars, dTermRet, BreakpointIDs, extVars>>

\* the backend closes the connection
backend_Exit ==
    /\ dConn = "open"
    /\ dMsgs < MaxMsgs
    /\ dMsgs' = dMsgs + 1
    /\ dConn' = "eof"
    /\ UNCHANGED <<dState, dPrev, dReg, dCreating, dMu, dClosed, dSeq, dWrites, dPending,
                   events, chClosed, readerDone, lmsg, leaked, dOps, dcs>>
    /\ UNCHANGED <<headlessVars, dTermRet, BreakpointIDs, extVars>>

\* SessionManager.TerminateSession(id) of package dap, called by the owner
\* of the manager while a user of the session may be inside an operation
dap_TerminateSession(id) ==
    /\ ~dCreating
    /\ dOps < MaxDapOps
    /\ dOps' = dOps + 1
    /\ IF id = SessionId /\ dReg
         THEN /\ dClosed' = TRUE
              /\ dConn' = "closed"
              /\ dPrev' = dState /\ dState' = "terminated"
              /\ dReg' = FALSE
              /\ dTermRet' = "nil"
         ELSE /\ dTermRet' = "notfound"
              /\ UNCHANGED <<dClosed, dConn, dPrev, dState, dReg>>
    /\ UNCHANGED <<dCreating, dMu, dSeq, dWrites, dPending, events, chClosed, readerDone,
                   lmsg, leaked, dMsgs, dcs, BreakpointIDs>>
    /\ UNCHANGED <<headlessVars, extVars>>

\* the specification of this part, SpecDap, follows the actions of
\* SessionManager.CreateSession in Part VII

\* ======================================================================
\* Part III.  Client.sendRequest of package dap (dap_old) on a connected
\* client, for every request type its callers pass, next to the requests
\* that Client.Continue and Client.SetBreakpoint write without waiting.
\* ======================================================================

\* the request types of the first switch of sendRequest (lines 101-129)
RequestVerbs ==
    {"initialize", "launch", "setBreakpoints", "configurationDone", "continue", "next",
     "stepIn", "stepOut", "scopes", "variables", "evaluate", "stackTrace"}

\* the requests that are written with no wait for the response:
\* Client.SetBreakpoint (line 383), Client.Continue (line 409)
UnawaitedVerbs == {"setBreakpoints", "continue"}

\* the requests that the callers of sendRequest pass to it (lines 296, 334,
\* 353, 428, 441, 454, 467, 497, 516, 551, 612)
AwaitedVerbs == RequestVerbs \ UnawaitedVerbs

\* a heuristic that also covers the step-over request
IsBreakpointOrContinue_Next(verb) == verb \in {"setBreakpoints", "continue", "next"}

\* lines 137-142: case *dap.SetBreakpointsRequest, *dap.ContinueRequest
IsBreakpointOrContinue(verb) == verb \in {"setBreakpoints", "continue"}

\* lines 153-159: receivedStoppedEvent after one more message
StoppedAfter(verb, stopped, msg) ==
    stopped \/ (IsBreakpointOrContinue(verb) /\ msg.t = "stopped")

\* lines 235-273: what the timeout case returns, "fabricated" being the
\* response built at lines 246-268
TimeoutResult(verb, stopped) ==
    IF IsBreakpointOrContinue(verb) /\ stopped THEN "fabricated" ELSE "timeout"

\* the response built at lines 246-268: Success, RequestSeq: reqSeq
FabricatedResponse(verb, reqSeq) == [t |-> "response", verb |-> verb, rs |-> reqSeq]

\* the state after NewSessionManager(), NewClient() and Client.Connect():
\* a connected client with readEvents running, no request made
InitSendRequest ==
    /\ dState = "none" /\ dPrev = "none" /\ dReg = FALSE /\ dCreating = FALSE
    /\ dMu = FALSE /\ dClosed = FALSE /\ dConn = "open"
    /\ dSeq = 1 /\ dWrites = 0 /\ dPending = <<>>
    /\ events = <<>> /\ chClosed = FALSE /\ readerDone = FALSE
    /\ lmsg = "none" /\ leaked = {} /\ dMsgs = 0 /\ dOps = 0
    /\ dcs = [c \in {"u"} |-> dap_Idle] /\ dTermRet = "none"
    /\ BreakpointIDs = {}
    /\ waiter = NoRequest
    /\ InitTools
    /\ mutex = FALSE /\ isClosed = FALSE /\ conn = "nil" /\ link = "up"
    /\ addr = FALSE /\ seq = 1 /\ reqs = <<>> /\ stream = <<>> /\ drops = 0
    /\ crashed = FALSE /\ crashedIn = "none"
    /\ sessions = {} /\ smMu = FALSE /\ created = FALSE /\ hasCmd = FALSE
    /\ connectTried = "no" /\ isPaused = FALSE /\ closeCalls = 0 /\ killCalls = 0
    /\ lastContinue = "none" /\ tsDone = "none"
    /\ ops = 0
    /\ cs = [c \in Callers |-> IdleCaller]

\* Client.SetBreakpoint / Client.Continue: newRequest (seq := c.seq; c.seq++)
\* and dap.WriteProtocolMessage, nothing is read
client_Write(verb, w) ==
    /\ waiter.pc # "wait"
    /\ dOps < MaxDapOps
    /\ dOps' = dOps + 1
    /\ dSeq' = dSeq + 1
    /\ IF WriteOk(dConn, w)
         THEN /\ dWrites' = dWrites + 1
              /\ dPending' = Append(dPending, [seq |-> dSeq, verb |-> verb])
         ELSE UNCHANGED <<dWrites, dPending>>
    /\ UNCHANGED <<dState, dPrev, dReg, dCreating, dMu, dClosed, dConn, events, chClosed,
                   readerDone, lmsg, leaked, dMsgs, dcs, dTermRet, BreakpointIDs>>
    /\ UNCHANGED <<headlessVars, moreVars, waiter, bpVars, memVars, regVars>>

\* newRequest and sendRequest lines 93-146: the request is written, its
\* sequence number kept, receivedStoppedEvent := false
client_sendRequest(verb, w) ==
    /\ waiter.pc # "wait"
    /\ dOps < MaxDapOps
    /\ dOps' = dOps + 1
    /\ dSeq' = dSeq + 1
    /\ IF WriteOk(dConn, w)
         THEN /\ dWrites' = dWrites + 1
              /\ dPending' = Append(dPending, [seq |-> dSeq, verb |-> verb])
              /\ waiter' = [NoRequest EXCEPT !.pc = "wait", !.verb = verb, !.reqSeq = dSeq]
         ELSE /\ waiter' = [NoRequest EXCEPT !.pc = "done", !.verb = verb, !.reqSeq = dSeq,
                                              !.ret = "senderr"]
              /\ UNCHANGED <<dWrites, dPending>>
    /\ UNCHANGED <<dState, dPrev, dReg, dCreating, dMu, dClosed, dConn, events, chClosed,
                   readerDone, lmsg, leaked, dMsgs, dcs, dTermRet, BreakpointIDs>>
    /\ UNCHANGED <<headlessVars, moreVars, bpVars, memVars, regVars>>

\* lines 149-233: case msg, ok := <-c.events with a message
waiter_Receive ==
    /\ waiter.pc = "wait"
    /\ events # <<>>
    /\ events' = Tail(events)
    /\ LET msg == Head(events)
           out == ResponseOutcome(waiter.verb, waiter.reqSeq, msg)
           r   == [waiter EXCEPT !.taken = Append(@, msg),
                                 !.stopped = StoppedAfter(waiter.verb, waiter.stopped, msg)]
       IN  waiter' = IF out = "ok" THEN [r EXCEPT !.pc = "done", !.ret = "response", !.msg = msg]
                     ELSE IF out = "error" THEN [r EXCEPT !.pc = "done", !.ret = "error"]
                     ELSE r
    /\ UNCHANGED <<dState, dPrev, dReg, dCreating, dMu, dClosed, dConn, dSeq, dWrites, dPending,
                   chClosed, readerDone, lmsg, leaked, dMsgs, dOps, dcs, dTermRet, BreakpointIDs>>
    /\ UNCHANGED <<headlessVars, moreVars, bpVars, memVars, regVars>>

\* lines 151-153: the channel is closed and drained
waiter_Closed ==
    /\ waiter.pc = "wait"
    /\ events = <<>> /\ chClosed
    /\ waiter' = [waiter EXCEPT !.pc = "done", !.ret = "closed"]
    /\ UNCHANGED dapVars
    /\ UNCHANGED <<headlessVars, moreVars, bpVars, memVars, regVars>>

\* lines 235-273: case <-timeout
waiter_Timeout ==
    /\ waiter.pc = "wait"
    /\ LET out == TimeoutResult(waiter.verb, waiter.stopped)
       IN  waiter' = [waiter EXCEPT !.pc = "done", !.ret = out,
                         !.msg = IF out = "fabricated"
                                   THEN FabricatedResponse(waiter.verb, waiter.reqSeq) ELSE @]
    /\ UNCHANGED dapVars
    /\ UNCHANGED <<headlessVars, moreVars, bpVars, memVars, regVars>>

NextSendRequest ==
    \/ \E verb \in UnawaitedVerbs, w \in BOOLEAN : client_Write(verb, w)
    \/ \E verb \in AwaitedVerbs, w \in BOOLEAN : client_sendRequest(verb, w)
    \/ waiter_Receive
    \/ waiter_Closed
    \/ waiter_Timeout
    \/ \E t \in {"stopped", "terminated"} : readEvents_Event(t)
    \/ \E ok \in BOOLEAN : readEvents_Response(ok)
    \/ readEvents_Error
    \/ backend_Exit

SpecSendRequest == InitSendRequest /\ [][NextSendRequest]_vars

\* ----------------------------------------------------------- claims, Part III
\* message m answers the request of the waiting call
Matches(m) == m.t = "response" /\ m.rs = waiter.reqSeq

\* C12: for every request type, when the messages the waiter takes from the
\* channel are messages that do not match the request's sequence number
\* followed by the response whose request sequence number equals it, the
\* waiter has skipped the former and returns that response.
C12_MatchingResponseReturned ==
    \A i \in 2..Len(waiter.taken) :
        (Matches(waiter.taken[i]) /\ \A j \in 1..(i-1) : waiter.taken[j].rs # waiter.reqSeq)
            => (waiter.pc = "done" /\ waiter.ret = "response" /\ waiter.msg = waiter.taken[i])

\* ------------------------------------------------------------ claims, Part II

\* C5: Terminated is absorbing: once the state of a session that
\* CreateSession has returned is Terminated, no later operation or event
\* changes it to another state.
C5_TerminatedAbsorbing ==
    [][(dState = "terminated" /\ ~dCreating) => dState' = "terminated"]_vars

\* a stopped event of the backend is received, that is taken from the
\* client's event channel, while the session is Running
C6_Receipt ==
    /\ events # <<>> /\ Head(events).t = "stopped" /\ events' = Tail(events)
    /\ dState = "running"

C6_Step ==
    /\ C6_Receipt => lmsg' = "stopped"
    /\ (lmsg = "stopped" /\ lmsg' # "stopped" /\ dState = "running")
          => (dState' = "paused" /\ ~NotPaused(dState'))

\* C6: a stopped event received by the session while it is Running moves it
\* to Paused: the event goroutine takes the event from the channel and its
\* handling sets the state to Paused, the state in which the precondition
\* of Next, StepIn, StepOut and Evaluate holds.
C6_StoppedMovesToPaused == [][C6_Step]_vars

\* a stopped event leaves the event channel
StoppedTaken ==
    events # <<>> /\ Head(events).t = "stopped" /\ events' = Tail(events)

\* the state leaves Paused for a state other than Terminated, with the
\* session still there
LeavesPaused == dState = "paused" /\ dState' \notin {"paused", "terminated", "none"}

C37_Step ==
    /\ StoppedTaken => lmsg' = "stopped"
    /\ (lmsg = "stopped" /\ lmsg' # "stopped") => dState' = "paused"
    /\ LeavesPaused => \E c \in DapCallers : dcs'[c] # dcs[c]

\* C37: a stopped signal is never lost by a Sequenced-transport session: a
\* stopped event that arrives after launch, during session creation or
\* while a sendRequest waiter consumes the event channel, is taken from
\* the channel by the session's event handling, which sets the state to
\* Paused, and the state stays Paused until an operation of a caller
\* resumes the program or the session terminates.
C37_StoppedNeverLost == [][C37_Step]_vars

\* the part of C37 about the handling of a stopped event that the
\* session's event goroutine has taken
C37_HandledStep == (lmsg = "stopped" /\ lmsg' # "stopped") => dState' = "paused"
C37_HandledSetsPaused == [][C37_HandledStep]_vars

\* caller c starts Next, StepIn, StepOut or Evaluate in this step
C7_Called(c) ==
    /\ dOps' = dOps + 1 /\ dcs'[c].n = dOps'
    /\ dcs'[c].op \in SteppingVerbs \cup {"evaluate"}

C7_Step ==
    \A c \in DapCallers :
        (C7_Called(c) /\ dState # "paused")
            => /\ dcs'[c].pc = "idle" /\ dcs'[c].ret = "notpaused"
               /\ dWrites' = dWrites /\ dSeq' = dSeq /\ dPending' = dPending
               /\ dState' = dState /\ dMu' = dMu

\* C7: Next, StepIn, StepOut and Evaluate called while the session is not
\* Paused return the "not paused" error, write nothing to the backend
\* connection and leave the session state unchanged.
C7_NotPausedRejected == [][C7_Step]_vars

\* Evaluate was called on the running session and was rejected: nothing was
\* written after the three requests of CreateSession
C7_Witness ==
    /\ dState = "running" /\ dReg
    /\ \E c \in DapCallers : dcs[c].op = "evaluate" /\ dcs[c].ret = "notpaused"

\* C13: the waiter never returns a backend response whose request sequence
\* number differs from the sequence number of the request it sent; a wait
\* that took no message with the request's sequence number ends in an error
\* (the timeout, or the closed channel) unless the stopped-event heuristic
\* fabricated the response.
C13_NoMismatchedResponse ==
    /\ waiter.ret = "response" => waiter.msg.rs = waiter.reqSeq
    /\ (waiter.pc = "done" /\ waiter.ret # "senderr"
          /\ \A i \in 1..Len(waiter.taken) : waiter.taken[i].rs # waiter.reqSeq)
         => waiter.ret \in {"timeout", "closed", "fabricated"}

\* the call skipped the response to an earlier request and returned the
\* response that carries its own sequence number
C13_Witness ==
    /\ waiter.pc = "done" /\ waiter.ret = "response" /\ waiter.msg.rs = waiter.reqSeq
    /\ Len(waiter.taken) >= 2
    /\ waiter.taken[1].t = "response" /\ waiter.taken[1].rs # waiter.reqSeq

\* a StoppedEvent is among the messages the waiter took during this wait
StoppedSeen == \E i \in 1..Len(waiter.taken) : waiter.taken[i].t = "stopped"

\* C14: a wait that ended by its timeout returns the fabricated success
\* response only when the request is a setBreakpoints or a continue request
\* and a stopped event was received during that same wait; for every other
\* request type, and for those two with no stopped event received during
\* the wait, the timeout returns an error.
C14_FabricatedOnlyForBreakpointOrContinue ==
    (waiter.pc = "done" /\ waiter.ret \in {"fabricated", "timeout"})
        => (waiter.ret = "fabricated"
              <=> (waiter.verb \in {"setBreakpoints", "continue"} /\ StoppedSeen))

\* a step-over request whose wait took a stopped event and timed out: the
\* timeout error, no fabricated response
C14_Witness ==
    /\ waiter.pc = "done" /\ waiter.verb = "next" /\ waiter.ret = "timeout"
    /\ StoppedSeen

\* the sendRequest calls that are selecting on c.events: those of the
\* callers, those of the goroutines Evaluate has stopped waiting for, and
\* the one of CreateSession's handshake
ActiveWaiters ==
    Cardinality({c \in DapCallers : dcs[c].pc \in {"wait", "evwait"}}) + Cardinality(leaked)
        + (IF waiter.pc = "wait" THEN 1 ELSE 0)

\* C27: the requests of one session are strictly serialized: at any instant
\* at most one sendRequest waiter is consuming from the client's event
\* channel (so no response can be taken by a waiter other than the one
\* whose request it answers), also after an Evaluate whose per-request
\* timeout expired before the 10s wait of sendRequest.
C27_AtMostOneWaiter == ActiveWaiters <= 1

\* C26: once the background listener readEvents has ended on a read error
\* or end-of-stream, the client is marked closed (IsClosed() is true), and
\* a caller waiting for a response, then or later, can take the error of
\* the closed channel at once instead of waiting for the timeout.
C26_ListenerEndMarksClosed ==
    /\ (readerDone /\ chClosed) => dClosed
    /\ (chClosed /\ events = <<>> /\ waiter.pc = "wait") => ENABLED waiter_Closed

\* ======================================================================
\* Part IV.  Package headless_ext: the breakpoint tools, called one after
\* the other on one headless session, and the breakpoint table of the
\* backend they act on.
\* ======================================================================

\* variables a watchpoint is asked for, files and lines of breakpoints
WatchVariables == {"counter", "total"}
BpLines == {10, 21}

\* targetBP.Disabled = !targetBP.Disabled, always switching it off
ToggledCopy_Disable(bp) == [bp EXCEPT !.disabled = TRUE]

\* a toggle that builds the amended breakpoint anew from the id and the flag
ToggledCopy_Fresh(bp) == [NoBp EXCEPT !.present = TRUE, !.disabled = ~bp.disabled]

\* ToggleBreakpoint lines 297-299: bpCopy := *bp; targetBP.Disabled = !targetBP.Disabled
ToggledCopy(bp) == [bp EXCEPT !.disabled = ~@]

\* the "write" and "read" arguments of a create_watchpoint tool call: not
\* given, or a boolean
FlagArgs == {"absent", "true", "false"}

\* part_000 lines 265-273: write := true / read := false, replaced by the
\* argument when it is present as a bool
FlagValue(arg, default) == IF arg = "absent" THEN default ELSE arg = "true"

\* api.WatchRead, api.WatchWrite: the bits of an api.WatchType, a mask
\* being the set of its bits and | the union
WatchRead == {"read"}
WatchWrite == {"write"}

\* a mask that takes each bit from its flag, with no fallback
determineWatchType_NoFallback(read, write) ==
    (IF read THEN WatchRead ELSE {}) \cup (IF write THEN WatchWrite ELSE {})

\* determineWatchType (part_003 lines 371-378)
determineWatchType(read, write) ==
    IF read /\ write THEN WatchRead \cup WatchWrite
    ELSE IF read THEN WatchRead
    ELSE WatchWrite

\* ListBreakpoints lines 266-272: the fields one line of the text shows,
\* fmt.Sprintf("%d: %s:%d (%s)\n", bp.ID, bp.File, bp.Line, status)
FormatBreakpoint(id, bp) ==
    [id |-> id, file |-> bp.file, line |-> bp.line,
     status |-> IF bp.disabled THEN "disabled" ELSE "enabled"]

\* the lines of the text for breakpoints table tbl, ids from..MaxBps
RECURSIVE FormatBreakpoints(_, _)
FormatBreakpoints(tbl, from) ==
    IF from > MaxBps THEN <<>>
    ELSE IF tbl[from].present
      THEN <<FormatBreakpoint(from, tbl[from])>> \o FormatBreakpoints(tbl, from + 1)
      ELSE FormatBreakpoints(tbl, from + 1)

\* a tool call may start: the previous one has returned
BpIdle == bpOp.pc = "idle" /\ bpCalls < MaxBpOps

\* Session.SetBreakpoint: RPCServer.CreateBreakpoint with File and Line;
\* ok: the request succeeded
SetBreakpoint(line, ok) ==
    /\ BpIdle
    /\ bpCalls' = bpCalls + 1
    /\ IF ok /\ bpNext <= MaxBps
         THEN /\ bps' = [bps EXCEPT ![bpNext] = [present |-> TRUE, disabled |-> FALSE,
                                                  file |-> "main.go", line |-> line, watch |-> ""]]
              /\ bpNext' = bpNext + 1
              /\ bpOp' = [NoBpOp EXCEPT !.op = "set", !.id = bpNext, !.ret = "ok",
                                         !.sent = <<RPCCreateBreakpoint>>]
         ELSE /\ bpOp' = [NoBpOp EXCEPT !.op = "set", !.ret = "err",
                                         !.sent = <<RPCCreateBreakpoint>>]
              /\ UNCHANGED <<bps, bpNext>>
    /\ UNCHANGED <<bpText, bpHist, wpMade>>
    /\ UNCHANGED <<headlessVars, moreVars, dapVars, waiter, memVars, regVars>>

\* the create_watchpoint tool (part_000 lines 245-287) and CreateWatchpoint
\* (part_003 lines 340-368): the flags are taken from the arguments,
\* RPCServer.CreateBreakpoint is sent with Name, WatchExpr, WatchType and
\* Variables; the backend stores the watchpoint with no file and line
CreateWatchpoint(variable, writeArg, readArg, ok) ==
    /\ BpIdle
    /\ bpCalls' = bpCalls + 1
    /\ LET write == FlagValue(writeArg, TRUE)
           read  == FlagValue(readArg, FALSE)
           call  == [NoBpOp EXCEPT !.op = "watch", !.sent = <<RPCCreateBreakpoint>>,
                                   !.writeArg = writeArg, !.readArg = readArg,
                                   !.mask = determineWatchType(read, write)]
       IN
       IF ok /\ bpNext <= MaxBps
         THEN /\ bps' = [bps EXCEPT ![bpNext] = [present |-> TRUE, disabled |-> FALSE,
                                                  file |-> "", line |-> 0, watch |-> variable]]
              /\ bpNext' = bpNext + 1
              /\ bpOp' = [call EXCEPT !.id = bpNext, !.ret = "ok"]
              /\ wpMade' = wpMade \cup {[id |-> bpNext, variable |-> variable,
                                          type |-> call.mask,
                                          read |-> read, write |-> write]}
         ELSE /\ bpOp' = [call EXCEPT !.ret = "err"]
              /\ UNCHANGED <<bps, bpNext, wpMade>>
    /\ UNCHANGED <<bpText, bpHist>>
    /\ UNCHANGED <<headlessVars, moreVars, dapVars, waiter, memVars, regVars>>

\* ListBreakpoints: RPCServer.ListBreakpoints and the formatting
ListBreakpoints(ok) ==
    /\ BpIdle
    /\ bpCalls' = bpCalls + 1
    /\ IF ok
         THEN /\ bpText' = [valid |-> TRUE, entries |-> FormatBreakpoints(bps, 1)]
              /\ bpOp' = [NoBpOp EXCEPT !.op = "list", !.ret = "ok",
                                         !.sent = <<RPCListBreakpoints>>]
         ELSE /\ bpOp' = [NoBpOp EXCEPT !.op = "list", !.ret = "err",
                                         !.sent = <<RPCListBreakpoints>>]
              /\ UNCHANGED bpText
    /\ UNCHANGED <<bps, bpNext, bpHist, wpMade>>
    /\ UNCHANGED <<headlessVars, moreVars, dapVars, waiter, memVars, regVars>>

\* ToggleBreakpoint lines 279-305: list, find the id, copy and flip
ToggleBreakpoint_List(id, ok) ==
    /\ BpIdle
    /\ bpCalls' = bpCalls + 1
    /\ bpOp' = IF ~ok THEN [NoBpOp EXCEPT !.op = "toggle", !.id = id, !.ret = "err",
                                            !.sent = <<RPCListBreakpoints>>]
               ELSE IF ~bps[id].present
                 THEN [NoBpOp EXCEPT !.op = "toggle", !.id = id, !.ret = "notfound",
                                     !.sent = <<RPCListBreakpoints>>]
               ELSE [NoBpOp EXCEPT !.op = "toggle", !.id = id, !.pc = "amend",
                                   !.copy = ToggledCopy(bps[id]),
                                   !.sent = <<RPCListBreakpoints>>]
    /\ UNCHANGED <<bps, bpNext, bpText, bpHist, wpMade>>
    /\ UNCHANGED <<headlessVars, moreVars, dapVars, waiter, memVars, regVars>>

\* ToggleBreakpoint lines 307-320: RPCServer.AmendBreakpoint with the copy.
\* out: "ok"; "rejected" (the request failed, nothing amended); "lost" (the
\* backend amended, the reply did not arrive: the tool returns the error)
ToggleBreakpoint_Amend(out) ==
    /\ bpOp.pc = "amend"
    /\ LET id == bpOp.id IN
       /\ bps' = IF out = "rejected" THEN bps ELSE [bps EXCEPT ![id] = bpOp.copy]
       /\ bpHist' = IF out = "ok"
                      THEN [bpHist EXCEPT ![id] =
                              IF Len(@) < 2 THEN Append(@, bps[id].disabled)
                                            ELSE <<@[2], bps[id].disabled>>]
                    ELSE IF out = "lost" THEN [bpHist EXCEPT ![id] = <<>>]
                    ELSE bpHist
       /\ bpOp' = [bpOp EXCEPT !.pc = "idle", !.ret = IF out = "ok" THEN "ok" ELSE "err",
                                !.sent = Append(@, RPCAmendBreakpoint)]
    /\ UNCHANGED <<bpNext, bpText, wpMade, bpCalls>>
    /\ UNCHANGED <<headlessVars, moreVars, dapVars, waiter, memVars, regVars>>

\* ClearBreakpoint: RPCServer.ClearBreakpoint by id
ClearBreakpoint(id, ok) ==
    /\ BpIdle
    /\ bpCalls' = bpCalls + 1
    /\ IF ok /\ bps[id].present
         THEN /\ bps' = [bps EXCEPT ![id] = NoBp]
              /\ bpHist' = [bpHist EXCEPT ![id] = <<>>]
              /\ wpMade' = {w \in wpMade : w.id # id}
              /\ bpOp' = [NoBpOp EXCEPT !.op = "clear", !.id = id, !.ret = "ok",
                                         !.sent = <<RPCClearBreakpoint>>]
         ELSE /\ bpOp' = [NoBpOp EXCEPT !.op = "clear", !.id = id, !.ret = "err",
                                         !.sent = <<RPCClearBreakpoint>>]
              /\ UNCHANGED <<bps, bpHist, wpMade>>
    /\ UNCHANGED <<bpNext, bpText>>
    /\ UNCHANGED <<headlessVars, moreVars, dapVars, waiter, memVars, regVars>>

NextBreakpoints ==
    \/ \E line \in BpLines, ok \in BOOLEAN : SetBreakpoint(line, ok)
    \/ \E v \in WatchVariables, writeArg, readArg \in FlagArgs, ok \in BOOLEAN :
          CreateWatchpoint(v, writeArg, readArg, ok)
    \/ \E ok \in BOOLEAN : ListBreakpoints(ok)
    \/ \E id \in BpIds, ok \in BOOLEAN : ToggleBreakpoint_List(id, ok)
    \/ \E out \in {"ok", "rejected", "lost"} : ToggleBreakpoint_Amend(out)
    \/ \E id \in BpIds, ok \in BOOLEAN : ClearBreakpoint(id, ok)

\* the tools on the session of a connected client
SpecBreakpoints == InitClient /\ [][NextBreakpoints]_vars

\* ----------------------------------------------------------- claims, Part IV
\* C17: after two successful toggles of the same breakpoint in sequence,
\* with no other change to it in between, the backend's Disabled flag of
\* the breakpoint equals its value before the first of the two.
C17_DoubleToggleRestores ==
    \A id \in BpIds :
        Len(bpHist[id]) = 2 => (bps[id].present /\ bps[id].disabled = bpHist[id][1])

\* a breakpoint was toggled twice and the second toggle found it disabled
C17_Witness ==
    \E id \in BpIds :
        /\ Len(bpHist[id]) = 2 /\ bpHist[id][2] /\ ~bpHist[id][1]
        /\ bpOp.op = "toggle" /\ bpOp.ret = "ok"

\* a watchpoint on `counter` made by CreateWatchpoint(variable="counter",
\* read=false, write=true) exists in the backend
CounterWatched ==
    \E w \in wpMade : w.variable = "counter" /\ ~w.read /\ w.write /\ bps[w.id].present

\* line e of the text shows name v
EntryNames(e, v) == e.file = v \/ e.status = v

\* C18: after CreateWatchpoint(variable="counter", read=false, write=true)
\* succeeded, the text returned by ListBreakpoints contains an entry that
\* names `counter` as its watch target.
C18_WatchpointListed ==
    [][(bpCalls' = bpCalls + 1 /\ bpOp'.op = "list" /\ bpOp'.ret = "ok" /\ CounterWatched)
         => \E i \in 1..Len(bpText'.entries) : EntryNames(bpText'.entries[i], "counter")]_vars

\* the flags of the latest create_watchpoint call, as the tool's
\* description gives them: write defaults to true, read to false
WatchFlag(arg, default) == (arg = "true") \/ (arg = "absent" /\ default)

\* C29: the watch mask CreateWatchpoint sends is a function of the two
\* flags: read and write give read|write, read alone gives read, write
\* alone gives write; with both flags absent from the tool call the mask
\* is write; the mask is never empty.
C29_WatchMask ==
    bpOp.op = "watch" =>
        LET read  == WatchFlag(bpOp.readArg, FALSE)
            write == WatchFlag(bpOp.writeArg, TRUE)
        IN  /\ (read /\ write) => bpOp.mask = {"read", "write"}
            /\ (read /\ ~write) => bpOp.mask = {"read"}
            /\ (~read /\ write) => bpOp.mask = {"write"}
            /\ (bpOp.readArg = "absent" /\ bpOp.writeArg = "absent") => bpOp.mask = {"write"}
            /\ bpOp.mask # {}

\* a watchpoint was created by a call that carried neither flag
C29_Witness ==
    /\ bpOp.op = "watch" /\ bpOp.ret = "ok"
    /\ bpOp.readArg = "absent" /\ bpOp.writeArg = "absent"
    /\ bpOp.mask = {"write"}

\* a create_watchpoint call carried write=false and read=false
C29_WitnessBothFalse ==
    /\ bpOp.op = "watch" /\ bpOp.readArg = "false" /\ bpOp.writeArg = "false"

\* a ToggleBreakpoint call starts: its list request is made
ToggleListed == bpCalls' = bpCalls + 1 /\ bpOp'.op = "toggle"

\* the amend request of a ToggleBreakpoint call is made
ToggleAmended == bpOp.pc = "amend" /\ bpOp' # bpOp

\* C28: ToggleBreakpoint(id) first sends the list request and then exactly
\* one amend request, whose breakpoint is the listed entry with only the
\* disabled flag negated; when the id is not in the list or the list
\* request fails it returns an error and sends no amend request.
C28_ToggleStep ==
    /\ ToggleListed =>
          /\ bpOp'.sent = <<RPCListBreakpoints>>
          /\ bps' = bps
          /\ IF bpOp'.pc = "amend"
               THEN LET listed == bps[bpOp'.id] IN
                    /\ listed.present /\ bpOp'.ret = "none"
                    /\ bpOp'.copy.disabled = ~listed.disabled
                    /\ bpOp'.copy.present = listed.present
                    /\ bpOp'.copy.file = listed.file /\ bpOp'.copy.line = listed.line
                    /\ bpOp'.copy.watch = listed.watch
               ELSE bpOp'.pc = "idle" /\ bpOp'.ret \in {"err", "notfound"}
          /\ ~bps[bpOp'.id].present => bpOp'.pc = "idle"
    /\ ToggleAmended =>
          /\ bpOp'.sent = <<RPCListBreakpoints, RPCAmendBreakpoint>>
          /\ bpOp'.pc = "idle" /\ bpOp'.copy = bpOp.copy
          /\ bpOp'.ret \in {"ok", "err"}
          /\ bps' \in {bps, [bps EXCEPT ![bpOp.id] = bpOp.copy]}

C28_ToggleListsThenAmendsOnce == [][C28_ToggleStep]_vars

\* a toggle of a watchpoint returned after its list and its one amend
\* request, the watch expression kept in the amended breakpoint
C28_Witness ==
    /\ bpOp.op = "toggle" /\ bpOp.pc = "idle" /\ bpOp.ret = "ok"
    /\ bpOp.sent = <<RPCListBreakpoints, RPCAmendBreakpoint>>
    /\ bpOp.copy.watch = "counter" /\ bpOp.copy.disabled
    /\ bps[bpOp.id] = bpOp.copy

\* a toggle of an id that is not in the list returned an error after the
\* list request alone
C28_WitnessNotFound ==
    /\ bpOp.op = "toggle" /\ bpOp.pc = "idle" /\ bpOp.ret = "notfound"
    /\ bpOp.sent = <<RPCListBreakpoints>>

\* ======================================================================
\* Part V.  Package headless_ext: ExamineMemory and formatMemoryDump.
\* Bytes and characters are numbers 0..255; a line of the dump is the
\* address it starts at, the characters of its hex column and the
\* characters of its ASCII column.
\* ======================================================================

\* the first bytes and the strides of the memory contents examined
MemStarts == {0, 31, 120, 250}
MemStrides == {1, 3}
\* parsed addresses: 0x1000 and 0x0
MemAddrs == {4096, 0}

\* n bytes of memory: start, start+stride, ... (mod 256)
MemBytes(n, start, stride) == [i \in 1..n |-> (start + stride * (i - 1)) % 256]

\* one digit of %02x
HexDigit(d) == IF d < 10 THEN 48 + d ELSE 87 + d

\* fmt.Sprintf("%02x ", b)
HexCell(b) == <<HexDigit(b \div 16), HexDigit(b % 16), 32>>

\* a dump that writes every byte as itself in the ASCII column
AsciiChar_Raw(b) == b

\* lines 199-204: printable ASCII as itself, '.' for the others
AsciiChar(b) == IF b >= 32 /\ b <= 126 THEN b ELSE 46

\* lines 187-189: the hex cells of mem[j..end-1] (indices from 0)
RECURSIVE HexBytes(_, _, _)
HexBytes(mem, j, end) ==
    IF j >= end THEN <<>> ELSE HexCell(mem[j + 1]) \o HexBytes(mem, j + 1, end)

\* lines 192-194: three spaces for each of the positions j..stop-1
RECURSIVE HexPadding(_, _)
HexPadding(j, stop) ==
    IF j >= stop THEN <<>> ELSE <<32, 32, 32>> \o HexPadding(j + 1, stop)

\* lines 198-205: the ASCII column of mem[j..end-1]
RECURSIVE AsciiColumn(_, _, _)
AsciiColumn(mem, j, end) ==
    IF j >= end THEN <<>> ELSE <<AsciiChar(mem[j + 1])>> \o AsciiColumn(mem, j + 1, end)

\* lines 177-206: one pass of the loop, for the line that starts at byte i
DumpLine(mem, baseAddr, i) ==
    LET end == IF i + bytesPerLine > Len(mem) THEN Len(mem) ELSE i + bytesPerLine
    IN  [addr  |-> baseAddr + i,
         hex   |-> HexBytes(mem, i, end) \o HexPadding(end, i + bytesPerLine),
         ascii |-> AsciiColumn(mem, i, end)]

\* for i := 0; i < len(mem); i += bytesPerLine
RECURSIVE DumpFrom(_, _, _)
DumpFrom(mem, baseAddr, i) ==
    IF i >= Len(mem) THEN <<>>
    ELSE <<DumpLine(mem, baseAddr, i)>> \o DumpFrom(mem, baseAddr, i + bytesPerLine)

formatMemoryDump(mem, baseAddr) == DumpFrom(mem, baseAddr, 0)

\* ExamineMemory with a parsed address and a successful request that
\* returned n bytes: "No memory data found." for none, else the dump
ExamineMemory(n, start, stride, addr0) ==
    /\ memIn' = MemBytes(n, start, stride)
    /\ memBase' = addr0
    /\ dump' = [called |-> TRUE, empty |-> (n = 0),
                lines |-> IF n = 0 THEN <<>> ELSE formatMemoryDump(MemBytes(n, start, stride), addr0)]
    /\ UNCHANGED <<headlessVars, moreVars, dapVars, waiter, bpVars, regVars>>

NextMemory ==
    \E n \in 0..MaxMemLen, start \in MemStarts, stride \in MemStrides, addr0 \in MemAddrs :
        ExamineMemory(n, start, stride, addr0)

SpecMemory == InitClient /\ [][NextMemory]_vars

\* ----------------------------------------------------------- claims, Part V
\* the value of a hex digit character
HexVal(ch) == IF ch >= 97 THEN ch - 87 ELSE ch - 48

\* the number of bytes on dump line k of n bytes
BytesOnLine(n, k) == IF k * 16 <= n THEN 16 ELSE n - (k - 1) * 16

\* C19: the dump of n bytes has ceil(n/16) lines, each covering at most 16
\* bytes, in order; the hex column of every line, also of a last line with
\* fewer than 16 bytes, has the width of 16 bytes; the ASCII column shows
\* every byte in [32,126] as itself and every other byte as '.'; 20 bytes
\* at 0x1000 give exactly 2 lines, of 16 and 4 bytes.
C19_MemoryDumpLayout ==
    dump.called =>
        LET n == Len(memIn) IN
        /\ Len(dump.lines) = (n + 15) \div 16
        /\ \A k \in 1..Len(dump.lines) :
              LET ln == dump.lines[k]
                  cnt == BytesOnLine(n, k)
              IN  /\ cnt >= 1 /\ cnt <= 16
                  /\ ln.addr = memBase + 16 * (k - 1)
                  /\ Len(ln.ascii) = cnt
                  /\ Len(ln.hex) = 3 * 16
                  /\ \A q \in 1..cnt :
                        LET b == memIn[16 * (k - 1) + q] IN
                        /\ 16 * HexVal(ln.hex[3 * q - 2]) + HexVal(ln.hex[3 * q - 1]) = b
                        /\ ln.hex[3 * q] = 32
                        /\ ln.ascii[q] = IF b \in 32..126 THEN b ELSE 46
                  /\ \A x \in (3 * cnt + 1)..(3 * 16) : ln.hex[x] = 32
        /\ (n = 20 /\ memBase = 4096) =>
              /\ Len(dump.lines) = 2
              /\ Len(dump.lines[1].ascii) = 16 /\ Len(dump.lines[2].ascii) = 4

\* 20 bytes at 0x1000 were dumped, among them bytes below 32 and printable
\* ones: two lines, the second padded
C19_Witness ==
    /\ dump.called /\ Len(memIn) = 20 /\ memBase = 4096
    /\ Len(dump.lines) = 2 /\ Len(dump.lines[2].ascii) = 4 /\ Len(dump.lines[2].hex) = 48
    /\ \E q \in 1..16 : memIn[q] < 32 /\ dump.lines[1].ascii[q] = 46
    /\ \E q \in 1..16 : memIn[q] >= 32 /\ dump.lines[1].ascii[q] = memIn[q]

\* ======================================================================
\* Part VI.  headless.SessionManager with several sessions: NewSession
\* called by concurrent goroutines, the backend processes it spawns and
\* the one address 127.0.0.1:54321 they are all told to listen on.
\* A backend process is "started", then "listening" (it has bound the
\* port), then "serving" (it has accepted its one client and closed the
\* listener), and ends as "exited" or "killed".
\* ======================================================================

\* a process that is alive
Alive(st) == st \in {"started", "listening", "serving"}

\* the process that has bound 127.0.0.1:54321 and accepts, 0 for none
Listener == IF \E i \in DOMAIN procs : procs[i] = "listening"
              THEN CHOOSE i \in DOMAIN procs : procs[i] = "listening" ELSE 0

\* the backend at the address the caller of start_debug_remote supplies:
\* a process this program did not spawn
RemoteBackend == MaxSessions + 1

\* a NewSession that starts a backend process whatever the mode
SpawnsBackend_Always(mode) == TRUE

\* NewSession line 51: mode "remote" starts no server, every other mode
\* runs exec.Command("dlv", ...).Start()
SpawnsBackend(mode) == mode # "remote"

\* d.DialContext(ctx, "tcp", "127.0.0.1:"+port) of a session whose own
\* process is cmd: the peer is the process listening on the port
DialPort(cmd) == Listener

\* NewSession lines 41-72: the session id, and for the local modes
\* exec.Command("dlv", ..., "--listen=127.0.0.1:54321", ...).Start()
NewSession_Start(c, mode, startOk) ==
    /\ nsCall[c].pc = "idle"
    /\ nsCount < MaxSessions
    /\ nsCount' = nsCount + 1
    /\ LET n == nsCount + 1 IN
       IF ~SpawnsBackend(mode)
         THEN /\ nsCall' = [nsCall EXCEPT ![c] = [NoNewSession EXCEPT !.pc = "store", !.n = n,
                                                                    !.mode = mode]]
              /\ UNCHANGED procs
       ELSE IF startOk
         THEN /\ procs' = [procs EXCEPT ![n] = "started"]
              /\ nsCall' = [nsCall EXCEPT ![c] = [NoNewSession EXCEPT !.pc = "sleep", !.n = n,
                                                                    !.mode = mode, !.cmd = n]]
       ELSE /\ nsCall' = [nsCall EXCEPT ![c] = [NoNewSession EXCEPT !.n = n, !.mode = mode,
                                                                  !.ret = "err"]]
            /\ UNCHANGED procs
    /\ UNCHANGED registry
    /\ UNCHANGED <<headlessVars, moreVars, dapVars, waiter, bpVars, memVars>>

\* NewSession lines 74-89: after the sleep, client = NewClient();
\* client.Connect to the port; client.Initialize only checks the connection.
\* A failed Connect returns the error; the spawned process is left running.
NewSession_Connect(c) ==
    /\ nsCall[c].pc = "sleep"
    /\ LET peer == DialPort(nsCall[c].cmd) IN
       IF peer = 0
         THEN /\ nsCall' = [nsCall EXCEPT ![c].pc = "idle", ![c].ret = "err"]
              /\ UNCHANGED procs
         ELSE /\ nsCall' = [nsCall EXCEPT ![c].pc = "store", ![c].peer = peer]
              /\ procs' = [procs EXCEPT ![peer] = "serving"]
    /\ UNCHANGED <<registry, nsCount>>
    /\ UNCHANGED <<headlessVars, moreVars, dapVars, waiter, bpVars, memVars>>

\* NewSession lines 92-107: the Session is built and stored under sm.mu
NewSession_Store(c) ==
    /\ nsCall[c].pc = "store"
    /\ registry' = registry \cup {[id |-> nsCall[c].n, client |-> nsCall[c].n,
                                     cmd |-> nsCall[c].cmd, peer |-> nsCall[c].peer,
                                     mode |-> nsCall[c].mode, tried |-> FALSE]}
    /\ nsCall' = [nsCall EXCEPT ![c].pc = "idle", ![c].ret = "ok"]
    /\ UNCHANGED <<procs, nsCount>>
    /\ UNCHANGED <<headlessVars, moreVars, dapVars, waiter, bpVars, memVars>>

\* a started backend binds the port, or exits because the address is in use
backend_Listen(i) ==
    /\ procs[i] = "started"
    /\ procs' = [procs EXCEPT ![i] = IF Listener = 0 THEN "listening" ELSE "exited"]
    /\ UNCHANGED <<registry, nsCall, nsCount>>
    /\ UNCHANGED <<headlessVars, moreVars, dapVars, waiter, bpVars, memVars>>

\* a backend process ends by itself (build failure, crash, debuggee done)
backend_Die(i) ==
    /\ Alive(procs[i])
    /\ procs' = [procs EXCEPT ![i] = "exited"]
    /\ UNCHANGED <<registry, nsCall, nsCount>>
    /\ UNCHANGED <<headlessVars, moreVars, dapVars, waiter, bpVars, memVars>>

\* reconnectLocked of the client of stored session s, after its connection
\* was lost: the stored address is dialled again
session_Reconnect(s) ==
    /\ s \in registry
    /\ s.peer \in DOMAIN procs /\ ~Alive(procs[s.peer])
    /\ DialPort(s.cmd) # 0
    /\ registry' = (registry \ {s}) \cup {[s EXCEPT !.peer = DialPort(s.cmd)]}
    /\ procs' = [procs EXCEPT ![DialPort(s.cmd)] = "serving"]
    /\ UNCHANGED <<nsCall, nsCount>>
    /\ UNCHANGED <<headlessVars, moreVars, dapVars, waiter, bpVars, memVars>>

\* the start_debug_remote tool after CreateSession(ctx, "", nil, "remote"):
\* SetWorkingDir stores a string, Session.ConnectRemote (lines 504-510) is
\* Client.Connect to the caller's address, called once; a failure is
\* returned with the session left in the registry
registry_ConnectRemote(s, connectOk) ==
    /\ s \in registry
    /\ s.mode = "remote" /\ s.peer = 0 /\ ~s.tried
    /\ registry' = (registry \ {s}) \cup
                      {[s EXCEPT !.peer = IF connectOk THEN RemoteBackend ELSE 0,
                                 !.tried = TRUE]}
    /\ UNCHANGED <<procs, nsCall, nsCount>>
    /\ UNCHANGED <<headlessVars, moreVars, dapVars, waiter, bpVars, memVars>>

\* TerminateSession of stored session s: Client.Close, cmd.Process.Kill
\* when s.cmd != nil (Terminate lines 446-452), delete(sm.sessions, id)
registry_TerminateSession(s) ==
    /\ s \in registry
    /\ registry' = registry \ {s}
    /\ procs' = IF s.cmd # 0 /\ Alive(procs[s.cmd])
                  THEN [procs EXCEPT ![s.cmd] = "killed"] ELSE procs
    /\ UNCHANGED <<nsCall, nsCount>>
    /\ UNCHANGED <<headlessVars, moreVars, dapVars, waiter, bpVars, memVars>>

NextRegistry ==
    \/ \E c \in Creators, mode \in {"debug", "remote"}, startOk \in BOOLEAN :
          NewSession_Start(c, mode, startOk)
    \/ \E c \in Creators : NewSession_Connect(c)
    \/ \E c \in Creators : NewSession_Store(c)
    \/ \E i \in 1..MaxSessions : backend_Listen(i)
    \/ \E i \in 1..MaxSessions : backend_Die(i)
    \/ \E s \in registry : session_Reconnect(s)
    \/ \E s \in registry, connectOk \in BOOLEAN : registry_ConnectRemote(s, connectOk)
    \/ \E s \in registry : registry_TerminateSession(s)

SpecRegistry == InitManager /\ [][NextRegistry]_vars

\* ----------------------------------------------------------- claims, Part VI
\* C20: for any two distinct sessions in the registry, created in any order
\* or concurrently, the clients are distinct, and the client of every
\* locally launched session is connected to the backend process spawned
\* for that session, never to the backend of another session.
C20_SessionOwnsClientAndBackend ==
    \A s \in registry :
        /\ \A t \in registry : s.id # t.id => s.client # t.client
        /\ s.cmd # 0 => s.peer = s.cmd

\* C21: a session created in mode "remote" has no process handle; creating
\* it spawns no backend process, its client is connected to nothing or to
\* the caller's address, and terminating it kills no process.
C21_RemoteInv ==
    /\ \A s \in registry :
          s.mode = "remote" => (s.cmd = 0 /\ s.peer \in {0, RemoteBackend})
    /\ \A c \in Creators : nsCall[c].mode = "remote" => nsCall[c].cmd = 0

C21_RemoteStep ==
    /\ \A c \in Creators :
          (nsCall'[c] # nsCall[c] /\ nsCall'[c].mode = "remote") => procs' = procs
    /\ \A s \in registry :
          (s.mode = "remote" /\ \A t \in registry' : t.id # s.id) => procs' = procs

C21_RemoteSpawnsAndKillsNothing == [](C21_RemoteInv) /\ [][C21_RemoteStep]_vars

\* a remote session was created and terminated while a backend process of
\* a local session stayed alive
C21_Witness ==
    \E c \in Creators :
        /\ nsCall[c].mode = "remote" /\ nsCall[c].ret = "ok"
        /\ \A s \in registry : s.id # nsCall[c].n
        /\ \E i \in DOMAIN procs : Alive(procs[i])

\* the NewSession call of c returned an error after it had started a
\* backend process
FailedAfterSpawn(c) ==
    nsCall[c].pc = "idle" /\ nsCall[c].ret = "err" /\ nsCall[c].cmd # 0

\* C35: a session creation that fails after the backend process was
\* started (connect or initialize fails) leaves the registry without a
\* session of that call and leaves no backend process running that was
\* spawned for it.
C35_FailedCreateLeavesNothing ==
    \A c \in Creators :
        FailedAfterSpawn(c) =>
            /\ \A s \in registry : s.id # nsCall[c].n
            /\ ~Alive(procs[nsCall[c].cmd])

\* the registry half of C35 alone
C35_FailedCreateNotStored ==
    \A c \in Creators : FailedAfterSpawn(c) => \A s \in registry : s.id # nsCall[c].n

\* C36: every session that GetSession or ListSessions returns has a
\* client that was connected: a session in the registry whose start is
\* over (a local one stored, a remote one after its connect step) has a
\* peer; when the connect of a remote session fails, no session stays in
\* the registry.
C36_RegisteredSessionsConnected ==
    \A s \in registry : (s.mode # "remote" \/ s.tried) => s.peer # 0

\* the same for the locally launched sessions alone
C36_LocalSessionsConnected ==
    \A s \in registry : s.mode # "remote" => s.peer # 0

\* ======================================================================
\* Part VII.  Package dap (dap_old): SessionManager.CreateSession step by
\* step, for a manager created with debuggerType "dap".  The three
\* requests of the handshake go through Client.sendRequest (Part III).
\* ======================================================================

\* a CreateSession that gives up on the failure of any step
FatalStep_All(step) == TRUE

\* lines 130-157: the error of Connect, Initialize and Launch is returned;
\* the error of ConfigurationDone is logged only
FatalStep(step) == step \in {"connect", "initialize", "launch"}

\* the step after a step of the handshake, "listen" after the last
StepAfter(step) ==
    LET i == CHOOSE k \in 1..Len(Handshake) : Handshake[k] = step
    IN  IF i < Len(Handshake) THEN Handshake[i + 1] ELSE "listen"

\* CreateSession lines 62-124: m.mu.Lock(), NewClient(), the Session in
\* state Initializing, exec.Command("dlv", "dap", ...).Start(); a failed
\* Start returns the error
CreateSession_Begin(startOk) ==
    /\ create.pc = "idle" /\ dState = "none"
    /\ dOps < MaxDapOps
    /\ dOps' = dOps + 1
    /\ IF startOk
         THEN /\ create' = [create EXCEPT !.pc = "connect"]
              /\ dState' = "initializing" /\ dPrev' = dState /\ dCreating' = TRUE
         ELSE /\ create' = [create EXCEPT !.pc = "done", !.ret = "err"]
              /\ UNCHANGED <<dState, dPrev, dCreating>>
    /\ UNCHANGED <<dReg, dMu, dClosed, dConn, dSeq, dWrites, dPending, events, chClosed,
                   readerDone, lmsg, leaked, dMsgs, dcs, dTermRet, BreakpointIDs>>
    /\ UNCHANGED <<headlessVars, waiter, bpVars, memVars, regVars, xlate, evch, tog>>

\* lines 126-133: the sleep and client.Connect, which starts readEvents; on
\* a failure DlvCmd.Process.Kill() and the error is returned, the Session
\* object is dropped
CreateSession_Connect(ok) ==
    /\ create.pc = "connect"
    /\ IF ok \/ ~FatalStep("connect")
         THEN /\ create' = [create EXCEPT !.pc = StepAfter("connect"),
                                          !.calls = Append(@, "connect"),
                                          !.outcome["connect"] = IF ok THEN "ok" ELSE "err"]
              /\ dConn' = IF ok THEN "open" ELSE dConn
              /\ UNCHANGED <<dState, dPrev, dCreating>>
         ELSE /\ create' = [create EXCEPT !.pc = "done", !.ret = "err",
                                          !.calls = Append(@, "connect"),
                                          !.outcome["connect"] = "err", !.kills = @ + 1]
              /\ dState' = "none" /\ dPrev' = dState /\ dCreating' = FALSE
              /\ UNCHANGED dConn
    /\ UNCHANGED <<dReg, dMu, dClosed, dSeq, dWrites, dPending, events, chClosed,
                   readerDone, lmsg, leaked, dMsgs, dOps, dcs, dTermRet, BreakpointIDs>>
    /\ UNCHANGED <<headlessVars, waiter, bpVars, memVars, regVars, xlate, evch, tog>>

\* client.Initialize (part_005 279-298), client.Launch (301-343),
\* client.ConfigurationDone (346-355): newRequest and sendRequest lines
\* 93-146, the request is written and the wait begins
CreateSession_Send(w) ==
    /\ create.pc \in HandshakeSteps \ {"connect"} /\ ~create.sent
    /\ create' = [create EXCEPT !.sent = TRUE, !.calls = Append(@, create.pc)]
    /\ dSeq' = dSeq + 1
    /\ IF WriteOk(dConn, w)
         THEN /\ dWrites' = dWrites + 1
              /\ dPending' = Append(dPending, [seq |-> dSeq, verb |-> create.pc])
              /\ waiter' = [NoRequest EXCEPT !.pc = "wait", !.verb = create.pc, !.reqSeq = dSeq]
         ELSE /\ waiter' = [NoRequest EXCEPT !.pc = "done", !.verb = create.pc, !.reqSeq = dSeq,
                                              !.ret = "senderr"]
              /\ UNCHANGED <<dWrites, dPending>>
    /\ UNCHANGED <<dState, dPrev, dReg, dCreating, dMu, dClosed, dConn, events, chClosed,
                   readerDone, lmsg, leaked, dMsgs, dOps, dcs, dTermRet, BreakpointIDs>>
    /\ UNCHANGED <<headlessVars, bpVars, memVars, regVars, xlate, evch, tog>>

\* lines 139-157: the request of the step has returned.  A failed
\* Initialize or Launch: Kill, client.Close() (isClosed := true,
\* conn.Close()) and the error is returned; a failed ConfigurationDone is
\* logged
CreateSession_Returned ==
    /\ create.pc \in HandshakeSteps \ {"connect"} /\ create.sent
    /\ waiter.pc = "done"
    /\ LET ok == waiter.ret \in {"response", "fabricated"} IN
       IF ok \/ ~FatalStep(create.pc)
         THEN /\ create' = [create EXCEPT !.pc = StepAfter(create.pc), !.sent = FALSE,
                                          !.outcome[create.pc] = IF ok THEN "ok" ELSE "err"]
              /\ UNCHANGED <<dState, dPrev, dCreating, dClosed, dConn>>
         ELSE /\ create' = [create EXCEPT !.pc = "done", !.sent = FALSE, !.ret = "err",
                                          !.outcome[create.pc] = "err",
                                          !.kills = @ + 1, !.closes = @ + 1]
              /\ dClosed' = TRUE /\ dConn' = "closed"
              /\ dState' = "none" /\ dPrev' = dState /\ dCreating' = FALSE
    /\ UNCHANGED <<dReg, dMu, dSeq, dWrites, dPending, events, chClosed,
                   readerDone, lmsg, leaked, dMsgs, dOps, dcs, dTermRet, BreakpointIDs>>
    /\ UNCHANGED <<headlessVars, waiter, bpVars, memVars, regVars, xlate, evch, tog>>

\* lines 167-188: go func() { for msg := range client.events ... }(), the
\* session's event goroutine is started
CreateSession_Listen ==
    /\ create.pc = "listen"
    /\ create' = [create EXCEPT !.pc = "store"]
    /\ UNCHANGED dapVars
    /\ UNCHANGED <<headlessVars, waiter, bpVars, memVars, regVars, xlate, evch, tog>>

\* lines 190-196: session.State = SessionStateRunning,
\* m.sessions[sessionID] = session, return session
CreateSession_Store ==
    /\ create.pc = "store"
    /\ create' = [create EXCEPT !.pc = "done", !.ret = "ok"]
    /\ dPrev' = dState /\ dState' = "running"
    /\ dReg' = TRUE /\ dCreating' = FALSE
    /\ UNCHANGED <<dMu, dClosed, dConn, dSeq, dWrites, dPending, events, chClosed,
                   readerDone, lmsg, leaked, dMsgs, dOps, dcs, dTermRet, BreakpointIDs>>
    /\ UNCHANGED <<headlessVars, waiter, bpVars, memVars, regVars, xlate, evch, tog>>

\* the backend answers the oldest unanswered request of the handshake;
\* readEvents reads the answer and sends it on c.events
readEvents_Answer(ok) ==
    /\ dConn = "open" /\ ~readerDone
    /\ dPending # <<>>
    /\ dPending' = Tail(dPending)
    /\ events' = Append(events, Response(Head(dPending), ok))
    /\ UNCHANGED <<dState, dPrev, dReg, dCreating, dMu, dClosed, dConn, dSeq, dWrites,
                   chClosed, readerDone, lmsg, leaked, dMsgs, dOps, dcs, dTermRet, BreakpointIDs>>
    /\ UNCHANGED <<headlessVars, extVars>>

NextCreate ==
    \/ \E startOk \in BOOLEAN : CreateSession_Begin(startOk)
    \/ \E ok \in BOOLEAN : CreateSession_Connect(ok)
    \/ \E w \in BOOLEAN : CreateSession_Send(w)
    \/ CreateSession_Returned
    \/ CreateSession_Listen
    \/ CreateSession_Store
    \/ waiter_Receive
    \/ waiter_Closed
    \/ waiter_Timeout
    \/ \E ok \in BOOLEAN : readEvents_Answer(ok)
    \/ \E t \in {"stopped", "terminated"} : readEvents_Event(t)
    \/ readEvents_Error
    \/ backend_Exit
    \/ eventLoop_Receive
    \/ eventLoop_Handle

SpecCreate == InitManager /\ [][NextCreate]_vars

\* Part II: the session from its creation on.  The answers to the three
\* requests of the handshake are not counted in MaxMsgs
NextDap ==
    \/ \E startOk \in BOOLEAN : CreateSession_Begin(startOk)
    \/ \E ok \in BOOLEAN : CreateSession_Connect(ok)
    \/ \E w \in BOOLEAN : CreateSession_Send(w)
    \/ CreateSession_Returned
    \/ CreateSession_Listen
    \/ CreateSession_Store
    \/ waiter_Receive
    \/ waiter_Closed
    \/ waiter_Timeout
    \/ \E ok \in BOOLEAN : dCreating /\ readEvents_Answer(ok)
    \/ \E c \in DapCallers, w \in BOOLEAN : dap_Continue(c, w)
    \/ \E c \in DapCallers : dap_Continue_Return(c)
    \/ \E c \in DapCallers, key \in BpKeys, w \in BOOLEAN : dap_SetBreakpoint(c, key, w)
    \/ \E c \in DapCallers : dap_SetBreakpoint_Return(c)
    \/ \E c \in DapCallers, verb \in SteppingVerbs, w \in BOOLEAN : dap_Step(c, verb, w)
    \/ \E c \in DapCallers, w \in BOOLEAN : dap_Evaluate(c, w)
    \/ \E c \in DapCallers, w \in BOOLEAN : Evaluate_Context(c, w)
    \/ \E c \in DapCallers : dap_sendRequest_Receive(c)
    \/ \E c \in DapCallers : dap_sendRequest_Closed(c)
    \/ \E c \in DapCallers : dap_sendRequest_Timeout(c)
    \/ \E q \in leaked : leaked_Receive(q)
    \/ \E q \in leaked : leaked_Return(q)
    \/ eventLoop_Receive
    \/ eventLoop_Handle
    \/ \E t \in {"stopped", "terminated"} : readEvents_Event(t)
    \/ \E ok \in BOOLEAN : readEvents_Response(ok)
    \/ readEvents_Error
    \/ readEvents_Exit
    \/ backend_Exit
    \/ \E id \in {SessionId, UnknownId} : dap_TerminateSession(id)

SpecDap == InitManager /\ [][NextDap]_vars

\* ----------------------------------------------------------- claims, Part VII
\* C25: CreateSession calls connect, initialize, launch and
\* configurationDone in that order; when connect, initialize or launch
\* fails the creation returns an error with the session not stored; a
\* failed configurationDone does not fail the creation; the session is
\* stored and Running only after connect, initialize and launch succeeded.
C25_CreateSessionHandshake ==
    /\ \A i \in 1..Len(create.calls) : i <= Len(Handshake) /\ create.calls[i] = Handshake[i]
    /\ \A st \in {"connect", "initialize", "launch"} :
          create.outcome[st] = "err" =>
              (create.pc = "done" /\ create.ret = "err" /\ ~dReg /\ dState # "running")
    /\ (create.outcome["configurationDone"] = "err" /\ create.pc = "done") =>
          (create.ret = "ok" /\ dReg)
    /\ (dReg \/ dState = "running" \/ create.ret = "ok") =>
          \A st \in {"connect", "initialize", "launch"} : create.outcome[st] = "ok"

\* a session was stored and set to Running after a handshake whose
\* configurationDone failed
C25_Witness ==
    /\ create.pc = "done" /\ create.ret = "ok" /\ dReg /\ dState = "running"
    /\ create.calls = Handshake
    /\ create.outcome["configurationDone"] = "err"

\* a creation failed at launch, after connect and initialize succeeded
C25_WitnessLaunchFailed ==
    /\ create.pc = "done" /\ create.ret = "err" /\ ~dReg
    /\ create.outcome["initialize"] = "ok" /\ create.outcome["launch"] = "err"

\* a session was stored after all four steps succeeded
C25_WitnessAllOk ==
    /\ create.ret = "ok" /\ dReg
    /\ \A st \in HandshakeSteps : create.outcome[st] = "ok"

\* ======================================================================
\* Part VIII.  Package headless_ext: what a translator sends and returns.
\* ExamineMemory with its address argument as text, and the checkpoint
\* translators, called with a session of any kind.  An address is a
\* sequence of characters; an error is its own message and the error it
\* wraps.
\* ======================================================================

\* the longest address text
MaxAddrLen == 3
\* the characters of the address texts
AddrChars == {"0", "f", "x", "z", " ", "_"}
Addresses == UNION {[1..n -> AddrChars] : n \in 0..MaxAddrLen}

\* fmt: hexadecimalDigits, by value
LowerHex == <<"0", "1", "2", "3", "4", "5", "6", "7", "8", "9", "a", "b", "c", "d", "e", "f">>
UpperHex == <<"0", "1", "2", "3", "4", "5", "6", "7", "8", "9", "A", "B", "C", "D", "E", "F">>
HexDigitChars == {LowerHex[i] : i \in 1..16} \cup {UpperHex[i] : i \in 1..16}
DigitValue(ch) == CHOOSE v \in 0..15 : LowerHex[v + 1] = ch \/ UpperHex[v + 1] = ch

\* the result of a scan that failed
ScanFailed == [ok |-> FALSE, val |-> 0]

\* ss.SkipSpace
RECURSIVE SkipSpace(_)
SkipSpace(s) == IF s # <<>> /\ Head(s) = " " THEN SkipSpace(Tail(s)) ELSE s

\* ss.scanNumber with the digits of the verb %x (getBase: hexadecimalDigits,
\* "_" is not among them): the run of leading hexadecimal digits
RECURSIVE scanNumber(_)
scanNumber(s) ==
    IF s # <<>> /\ Head(s) \in HexDigitChars
    THEN <<Head(s)>> \o scanNumber(Tail(s))
    ELSE <<>>

\* strconv.ParseUint(tok, 16, 64) of a token of hexadecimal digits
RECURSIVE ParseUint(_, _)
ParseUint(tok, acc) ==
    IF tok = <<>> THEN acc ELSE ParseUint(Tail(tok), 16 * acc + DigitValue(Head(tok)))

\* the verb %x into a uint64 (ss.scanUint): spaces are skipped, the token
\* is read ("expected integer" when it is empty, "unexpected EOF" at the
\* end of the input) and converted.  What follows the token, "_"
\* included, is left unread.
scanUint(s) ==
    LET tok == scanNumber(SkipSpace(s)) IN
    IF tok = <<>> THEN ScanFailed
    ELSE [ok |-> TRUE, val |-> ParseUint(tok, 0)]

\* fmt.Sscanf(address, "0x%x", &addr): the literal 0x, then the verb
Sscanf_0x(s) ==
    IF Len(s) >= 2 /\ s[1] = "0" /\ s[2] = "x" THEN scanUint(SubSeq(s, 3, Len(s)))
    ELSE ScanFailed

\* fmt.Sscanf(address, "%x", &addr)
Sscanf_x(s) == scanUint(s)

\* ExamineMemory lines 133-141: with the prefix, then without it
ParseAddress(address) ==
    IF Sscanf_0x(address).ok THEN Sscanf_0x(address) ELSE Sscanf_x(address)

\* the sessions a translator is called with: a *headless.Session with a
\* client, one whose Client is nil, a session of another kind
SessionKinds == {"headless", "noClient", "other"}

\* the error of a request the backend failed
BackendFailure == "backend request failed"

\* fmt.Errorf(text + ": %w", cause)
Wrap(text, cause) == [msg |-> text, cause |-> cause]

\* sendHeadlessClientRequest: whether a request goes out, and the error
sendHeadlessClientRequest(session, ok) ==
    IF session = "other" THEN [sent |-> FALSE, err |-> "session is not a headless session"]
    ELSE IF session = "noClient" THEN [sent |-> FALSE, err |-> "client is nil"]
    ELSE [sent |-> TRUE, err |-> IF ok THEN "" ELSE BackendFailure]

RPCExamineMemory == "RPCServer.ExamineMemory"
RPCCheckpoint == "RPCServer.Checkpoint"
RPCListCheckpoints == "RPCServer.ListCheckpoints"
RPCClearCheckpoint == "RPCServer.ClearCheckpoint"

CheckpointOps == {"CreateCheckpoint", "ListCheckpoints", "ClearCheckpoint"}

\* the method a translator sends
MethodOf(op) ==
    CASE op = "ExamineMemory"    -> RPCExamineMemory
      [] op = "CreateCheckpoint" -> RPCCheckpoint
      [] op = "ListCheckpoints"  -> RPCListCheckpoints
      [] op = "ClearCheckpoint"  -> RPCClearCheckpoint

\* the text a translator puts before the error of its request
FailedText(op) ==
    CASE op = "ExamineMemory"    -> "failed to examine memory"
      [] op = "CreateCheckpoint" -> "failed to create checkpoint"
      [] op = "ListCheckpoints"  -> "failed to list checkpoints"
      [] op = "ClearCheckpoint"  -> "failed to clear checkpoint"

\* a translator's one request and what the call records of it
Requested(op, session, ok) ==
    LET r == sendHeadlessClientRequest(session, ok) IN
    [NoXlate EXCEPT !.op = op, !.session = session,
                    !.sent = IF r.sent THEN <<MethodOf(op)>> ELSE <<>>,
                    !.reply = IF ~r.sent THEN "none" ELSE IF ok THEN "ok" ELSE "err",
                    !.err = IF r.err = "" THEN NoError ELSE Wrap(FailedText(op), r.err)]

\* the lengths of the memory the backend returns to ExamineMemoryAt
XlateMemLens == {20}

\* a call of ExamineMemory that returned an error: no bytes, no dump
NoDump(addr0) ==
    /\ memIn' = <<>> /\ memBase' = addr0
    /\ dump' = [called |-> FALSE, empty |-> TRUE, lines |-> <<>>]

\* ExamineMemory called with an address text: the address is parsed, the
\* request is made, its bytes are dumped
ExamineMemoryAt(address, session, ok, n) ==
    LET parsed == ParseAddress(address) IN
    IF ~parsed.ok
    THEN /\ xlate' = [NoXlate EXCEPT !.op = "ExamineMemory", !.address = address,
                                     !.session = session,
                                     !.err = Wrap("failed to parse address", "scan error")]
         /\ NoDump(0)
         /\ UNCHANGED <<headlessVars, create, evch, tog, dapVars, waiter, bpVars, regVars>>
    ELSE LET call == [Requested("ExamineMemory", session, ok) EXCEPT
                          !.address = address, !.addr = parsed.val]
         IN  /\ xlate' = call
             /\ IF call.err = NoError
                  THEN /\ memIn' = MemBytes(n, 31, 3)
                       /\ memBase' = parsed.val
                       /\ dump' = [called |-> TRUE, empty |-> (n = 0),
                                   lines |-> IF n = 0 THEN <<>>
                                             ELSE formatMemoryDump(MemBytes(n, 31, 3), parsed.val)]
                  ELSE NoDump(parsed.val)
             /\ UNCHANGED <<headlessVars, create, evch, tog, dapVars, waiter, bpVars, regVars>>

\* CreateCheckpoint, ListCheckpoints, ClearCheckpoint: one request each
Checkpoint(op, session, ok) ==
    /\ xlate' = Requested(op, session, ok)
    /\ UNCHANGED <<headlessVars, create, evch, tog, dapVars, waiter, bpVars, memVars, regVars>>

NextXlate ==
    \/ \E address \in Addresses, session \in SessionKinds, ok \in BOOLEAN, n \in XlateMemLens :
          ExamineMemoryAt(address, session, ok, n)
    \/ \E op \in CheckpointOps, session \in SessionKinds, ok \in BOOLEAN :
          Checkpoint(op, session, ok)

SpecXlate == InitClient /\ [][NextXlate]_vars

\* --------------------------------------------------------- claims, Part VIII
\* an address text that is hexadecimal: digits, with or without 0x before
IsHexAddress(a) ==
    LET d == IF Len(a) >= 2 /\ a[1] = "0" /\ a[2] = "x" THEN SubSeq(a, 3, Len(a)) ELSE a
    IN  d # <<>> /\ \A i \in 1..Len(d) : d[i] \in HexDigitChars

\* the latest call returned an error that wraps the backend's and names
\* the operation
NamesFailedOperation ==
    xlate.err.msg = FailedText(xlate.op) /\ xlate.err.cause = BackendFailure

\* the latest call returned an error without sending a request
FailedBeforeSending == xlate.sent = <<>> /\ xlate.err # NoError

\* C30: a translator whose backend request failed returns an error that
\* wraps the cause and names the failed operation; ExamineMemory with an
\* address that is not hexadecimal, and every translator called with a
\* session that is not a Line-Oriented session or has no client, return
\* an error and send no request.
C30_TranslatorErrors ==
    xlate.op # "none" =>
        /\ xlate.reply = "err" => NamesFailedOperation
        /\ xlate.session # "headless" => FailedBeforeSending
        /\ (xlate.op = "ExamineMemory" /\ ~IsHexAddress(xlate.address)) => FailedBeforeSending

\* the first two parts of C30 alone
C30_RequestErrors ==
    xlate.op # "none" =>
        /\ xlate.reply = "err" => NamesFailedOperation
        /\ xlate.session # "headless" => FailedBeforeSending

\* ExamineMemory sent a request for an address text that is not hexadecimal
C30_SentForBadAddress ==
    /\ xlate.op = "ExamineMemory" /\ ~IsHexAddress(xlate.address)
    /\ xlate.sent = <<RPCExamineMemory>>

\* ======================================================================
\* Part IX.  Package dap (dap_old), a manager created with a debuggerType
\* other than "dap": Client.events with readEvents (started by Connect),
\* the line-reading goroutine started by InitializeHeadless, and Close().
\* Both goroutines read the same connection; what the backend sends is
\* received by either.  close of a closed channel and a send on a closed
\* channel are panics, which end the process.
\* ======================================================================

\* messages the backend sends on the connection
MaxChanMsgs == 2

\* close(c.events)
CloseEvents(e) ==
    IF e.chClosed
      THEN [e EXCEPT !.closes = @ + 1, !.panic = "close of closed channel"]
      ELSE [e EXCEPT !.closes = @ + 1, !.chClosed = TRUE]

\* c.events <- message
SendEvent(e) ==
    IF e.chClosed
      THEN [e EXCEPT !.sentClosed = TRUE, !.panic = "send on closed channel"]
      ELSE [e EXCEPT !.queued = @ + 1, !.sent = @ + 1]

\* the process is running
EvchRunning == evch.panic = "none"

\* the backend writes a message
evch_BackendSend ==
    /\ EvchRunning /\ evch.conn = "open"
    /\ evch.inbox + evch.sent < MaxChanMsgs
    /\ evch' = [evch EXCEPT !.inbox = @ + 1]
    /\ UNCHANGED <<headlessVars, create, xlate, tog, dapVars, waiter, bpVars, memVars, regVars>>

\* the backend closes the connection: reads return io.EOF
evch_BackendClose ==
    /\ EvchRunning /\ evch.conn = "open"
    /\ evch' = [evch EXCEPT !.conn = "eof"]
    /\ UNCHANGED <<headlessVars, create, xlate, tog, dapVars, waiter, bpVars, memVars, regVars>>

\* Client.Close (lines 58-64): isClosed = true, conn.Close(); the reads
\* after it return "use of closed network connection", also when the
\* backend had closed the connection before
evch_Close ==
    /\ EvchRunning /\ ~evch.closeCalled
    /\ evch' = [evch EXCEPT !.isClosed = TRUE, !.closeCalled = TRUE, !.conn = "closed"]
    /\ UNCHANGED <<headlessVars, create, xlate, tog, dapVars, waiter, bpVars, memVars, regVars>>

\* readEvents line 68: for !c.isClosed
readEvents_Loop ==
    /\ EvchRunning /\ evch.rd = "loop"
    /\ evch' = [evch EXCEPT !.rd = IF evch.isClosed THEN "done" ELSE "read"]
    /\ UNCHANGED <<headlessVars, create, xlate, tog, dapVars, waiter, bpVars, memVars, regVars>>

\* readEvents lines 69-77: dap.ReadProtocolMessage; a message that decodes
\* goes on to the send, every error ends the goroutine with close(c.events)
readEvents_Read(decodes) ==
    /\ EvchRunning /\ evch.rd = "read"
    /\ IF evch.inbox > 0
         THEN evch' = IF decodes
                        THEN [evch EXCEPT !.inbox = @ - 1, !.rd = "send"]
                        ELSE [CloseEvents(evch) EXCEPT !.inbox = @ - 1, !.rd = "done"]
         ELSE /\ evch.conn # "open"
              /\ evch' = [CloseEvents(evch) EXCEPT !.rd = "done"]
    /\ UNCHANGED <<headlessVars, create, xlate, tog, dapVars, waiter, bpVars, memVars, regVars>>

\* readEvents line 88: c.events <- message
readEvents_Send ==
    /\ EvchRunning /\ evch.rd = "send"
    /\ evch' = [SendEvent(evch) EXCEPT !.rd = "loop"]
    /\ UNCHANGED <<headlessVars, create, xlate, tog, dapVars, waiter, bpVars, memVars, regVars>>

\* InitializeHeadless lines 688-691: if c.isClosed { break }
lineReader_Loop ==
    /\ EvchRunning /\ evch.ln = "loop"
    /\ evch' = [evch EXCEPT !.ln = IF evch.isClosed THEN "done" ELSE "read"]
    /\ UNCHANGED <<headlessVars, create, xlate, tog, dapVars, waiter, bpVars, memVars, regVars>>

\* InitializeHeadless lines 694-718: c.reader.ReadString; on io.EOF
\* isClosed = true and close(c.events); on another error continue; a line
\* that is an event goes on to convertDelveToDAP, another one is dropped
lineReader_Read(isEvent) ==
    /\ EvchRunning /\ evch.ln = "read"
    /\ IF evch.inbox > 0
         THEN evch' = [evch EXCEPT !.inbox = @ - 1, !.ln = IF isEvent THEN "convert" ELSE "loop"]
       ELSE IF evch.conn = "eof"
         THEN evch' = [CloseEvents([evch EXCEPT !.isClosed = TRUE]) EXCEPT !.ln = "done"]
       ELSE /\ evch.conn = "closed"
            /\ evch' = [evch EXCEPT !.ln = "loop"]
    /\ UNCHANGED <<headlessVars, create, xlate, tog, dapVars, waiter, bpVars, memVars, regVars>>

\* convertDelveToDAP lines 760-814: c.events <- stoppedEvent / terminatedEvent
lineReader_Convert ==
    /\ EvchRunning /\ evch.ln = "convert"
    /\ evch' = [SendEvent(evch) EXCEPT !.ln = "loop"]
    /\ UNCHANGED <<headlessVars, create, xlate, tog, dapVars, waiter, bpVars, memVars, regVars>>

\* a receiver takes a message from the channel
evch_Receive ==
    /\ EvchRunning /\ evch.queued > 0
    /\ evch' = [evch EXCEPT !.queued = @ - 1]
    /\ UNCHANGED <<headlessVars, create, xlate, tog, dapVars, waiter, bpVars, memVars, regVars>>

NextEvch ==
    \/ evch_BackendSend
    \/ evch_BackendClose
    \/ evch_Close
    \/ readEvents_Loop
    \/ \E decodes \in BOOLEAN : readEvents_Read(decodes)
    \/ readEvents_Send
    \/ lineReader_Loop
    \/ \E isEvent \in BOOLEAN : lineReader_Read(isEvent)
    \/ lineReader_Convert
    \/ evch_Receive

SpecEvch == InitManager /\ [][NextEvch]_vars

\* ----------------------------------------------------------- claims, Part IX
\* C38: the Sequenced client's event channel is closed at most once and no
\* message is sent on it after it was closed, for every interleaving of
\* readEvents, the line-reading goroutine of InitializeHeadless and Close().
C38_EventChannelClosedOnce ==
    evch.closes <= 1 /\ ~evch.sentClosed

\* ======================================================================
\* Part X: toggle_breakpoint called by several callers at once
\* ======================================================================
\* The handler of registerToggleBreakpointTool (part_000 lines 144-173) takes
\* no lock: it looks the session up and calls headless_ext.ToggleBreakpoint,
\* which sends RPCServer.ListBreakpoints, flips Disabled in its copy and
\* sends RPCServer.AmendBreakpoint with the copy (part_003 lines 277-321).
\* Each request is one exchange under the client's mutex; the two requests
\* of one call are separate exchanges.

\* the other caller
OtherCaller(c) == CHOOSE d \in Callers : d # c

\* a call is between its two requests
TogInFlight(c) == tog[c].pc = "amend"

\* ToggleBreakpoint lines 279-303 for caller c: ListBreakpoints, the copy of
\* the breakpoint with Disabled flipped. before: the flag before the first
\* call of the pair; overlap: the call started while the other was between
\* its two requests
Toggle_List(c, id, ok) ==
    /\ tog[c].pc = "idle" /\ bpOp.pc = "idle" /\ bpCalls < MaxBpOps
    /\ bpCalls' = bpCalls + 1
    /\ LET o == OtherCaller(c)
           paired == tog[o].pc \in {"amend", "done"} /\ tog[o].id = id
           before == IF paired THEN tog[o].before ELSE bps[id].disabled
           mine == IF ~ok THEN [NoToggle EXCEPT !.pc = "done", !.id = id, !.ret = "err"]
                   ELSE IF ~bps[id].present
                     THEN [NoToggle EXCEPT !.pc = "done", !.id = id, !.ret = "notfound"]
                   ELSE [NoToggle EXCEPT !.pc = "amend", !.id = id,
                                         !.copy = ToggledCopy(bps[id]),
                                         !.before = before,
                                         !.overlap = TogInFlight(o) /\ tog[o].id = id]
       IN tog' = [tog EXCEPT ![c] = mine,
                             ![o] = IF mine.overlap THEN [@ EXCEPT !.overlap = TRUE] ELSE @]
    /\ UNCHANGED <<bps, bpNext, bpOp, bpText, bpHist, wpMade>>
    /\ UNCHANGED <<headlessVars, create, xlate, evch, dapVars, waiter, memVars, regVars>>

\* ToggleBreakpoint lines 305-320 for caller c: AmendBreakpoint with the
\* copy; ok: the request succeeded and the backend stored the copy
Toggle_Amend(c, ok) ==
    /\ tog[c].pc = "amend"
    /\ bps' = IF ok THEN [bps EXCEPT ![tog[c].id] = tog[c].copy] ELSE bps
    /\ tog' = [tog EXCEPT ![c].pc = "done", ![c].ret = IF ok THEN "ok" ELSE "err"]
    /\ UNCHANGED <<bpNext, bpOp, bpText, bpHist, wpMade, bpCalls>>
    /\ UNCHANGED <<headlessVars, create, xlate, evch, dapVars, waiter, memVars, regVars>>

\* the handlers have returned their results (part_000 line 171): the
\* callers may call again
Toggle_Return ==
    /\ \A c \in Callers : tog[c].pc \in {"idle", "done"}
    /\ \E c \in Callers : tog[c].pc = "done"
    /\ tog' = [c \in Callers |-> NoToggle]
    /\ UNCHANGED <<bpVars>>
    /\ UNCHANGED <<headlessVars, create, xlate, evch, dapVars, waiter, memVars, regVars>>

\* set_breakpoint while no toggle_breakpoint call is running
Toggle_SetBreakpoint(line, ok) ==
    /\ \A c \in Callers : tog[c].pc = "idle"
    /\ SetBreakpoint(line, ok)

NextToggle ==
    \/ \E line \in BpLines, ok \in BOOLEAN : Toggle_SetBreakpoint(line, ok)
    \/ \E c \in Callers, id \in BpIds, ok \in BOOLEAN : Toggle_List(c, id, ok)
    \/ \E c \in Callers, ok \in BOOLEAN : Toggle_Amend(c, ok)
    \/ Toggle_Return

SpecToggle == InitClient /\ [][NextToggle]_vars

\* ------------------------------------------------------------ claims, Part X
\* both calls of a pair on one breakpoint have returned successfully
BothToggled(id) ==
    \A c \in Callers : tog[c].pc = "done" /\ tog[c].ret = "ok" /\ tog[c].id = id

\* C39: two concurrent ToggleBreakpoint calls on the same breakpoint have the
\* net effect of two sequential toggles: after both returned successfully
\* the backend's disabled flag equals its value before the calls.
C39_ConcurrentTogglesCancel ==
    \A id \in BpIds :
        (BothToggled(id) /\ \A c \in Callers : tog[c].overlap)
            => bps[id].disabled = tog["a"].before

\* the same for two calls one after the other: the second call started
\* after the first had returned
C39_SequentialTogglesCancel ==
    \A id \in BpIds :
        (BothToggled(id) /\ \A c \in Callers : ~tog[c].overlap)
            => bps[id].disabled = tog["a"].before

\* two calls one after the other have both returned successfully
C39_SequentialReached ==
    \E id \in BpIds : BothToggled(id) /\ \A c \in Callers : ~tog[c].overlap

====
